---- MODULE Spec2Model ----
(***************************************************************************)
(* FujiBus host tools (py/fujinet_tools): SLIP framing, FujiBus packets,   *)
(* the FujiBusSession demultiplexer and the retry helper built on it.      *)
(*                                                                         *)
(* Specifications:                                                         *)
(*   Spec        FujiBusSession.send_command_expect against a device that  *)
(*               sends responses and line noise, read in arbitrary chunks  *)
(*   SpecRetry   _send_retry over the session against a device that        *)
(*               answers every request once, after any delay               *)
(*   SpecSlip    slip_encode, slip_decode and _extract_frame_from_rx on    *)
(*               bounded byte strings                                      *)
(*   SpecPacket  build_fuji_packet and parse_fuji_packet on bounded inputs *)
(*                                                                         *)
(* Time is not counted: each test of time.monotonic() against a deadline   *)
(* may come out either way until it has once seen the deadline passed.     *)
(*                                                                         *)
(* Bytes are integers 0..255, byte strings are sequences.  Python offsets  *)
(* are 0-based; an operator that takes or returns an offset keeps the      *)
(* Python value and indexes the sequence at offset + 1.                    *)
(* Optional values: None is the empty sequence, a present value x is <<x>>.*)
(***************************************************************************)
EXTENDS Integers, Sequences, FiniteSets, TLC

\* ------------------------------------------------------------------------
\* Program constants (fujibus.py)
\* ------------------------------------------------------------------------
SLIP_END == 192
SLIP_ESCAPE == 219
SLIP_ESC_END == 220
SLIP_ESC_ESC == 221
HEADER_SIZE == 6
FIELD_SIZE_TABLE == <<0, 1, 1, 1, 1, 2, 2, 4>>
NUM_FIELDS_TABLE == <<0, 1, 2, 3, 4, 1, 2, 1>>

None == <<>>
Some(x) == <<x>>

\* ------------------------------------------------------------------------
\* Bounds of the model
\* ------------------------------------------------------------------------
\* longest byte string fed to slip_encode / slip_decode
MaxLen == 3
\* longest second byte string of the two-frame framer check
MaxLen2 == 1
\* longest payload handed to build_fuji_packet
MaxPayload == 2
\* frames the device side puts on the wire in one run of the session
MaxEmit == 2
\* send_command_expect calls in one run of the session
MaxCalls == 2
\* logical commands issued through _send_retry in one run
MaxCmds == 2
\* the `retries` argument passed to _send_retry
MaxRetries == 2
MaxSumLen == 3
MaxDecoded == 7
MaxReads == 3
MaxChunk == 2
MaxTotal == 3
MaxCursor == 1
MaxData == 3
MaxBody == 2
MaxInfoRetries == 2
MaxHeaderLines == 2
MaxField == 2
MaxEntries == 1
MaxIndex == 1
MaxFileLen == 3
MaxStart == 1
MaxSectorData == 2
MaxLegacyEmit == 3
MaxLegacyCalls == 2
MaxChainBody == 5
MaxWriteData == 12
MaxFsLen == 2
MaxPathLen == 2
MaxReplCmds == 3
MaxContentLength == 2

\* ------------------------------------------------------------------------
\* Byte helpers
\* ------------------------------------------------------------------------
\* first 1-based index i >= from with s[i] = b, 0 when there is none
\* (bytearray.index(b, from - 1); 0 stands for ValueError)
IndexFrom(s, b, from) ==
    LET hits == {i \in from..Len(s) : s[i] = b}
    IN  IF hits = {} THEN 0 ELSE CHOOSE i \in hits : \A j \in hits : i <= j

RECURSIVE Pow256(_)
Pow256(i) == IF i = 0 THEN 1 ELSE 256 * Pow256(i - 1)

\* b & 0x80 # 0 for a byte b
HighBit(b) == (b \div 128) % 2 = 1

\* ------------------------------------------------------------------------
\* calc_checksum
\* ------------------------------------------------------------------------
RECURSIVE ChecksumFold(_, _)
ChecksumFold(data, chk) ==
    IF data = <<>> THEN chk
    ELSE LET s == chk + Head(data)
         IN  ChecksumFold(Tail(data), (((s \div 256) + (s % 256)) % 65536))

\* the plain sum of the bytes
RECURSIVE ByteSum(_)
ByteSum(data) == IF data = <<>> THEN 0 ELSE Head(data) + ByteSum(Tail(data))

\* the sum folded once, at the end, instead of after every byte
calc_checksum_fold_once(data) ==
    ((ByteSum(data) \div 256) + (ByteSum(data) % 256)) % 256

calc_checksum(data) == ChecksumFold(data, 0) % 256

\* ------------------------------------------------------------------------
\* slip_encode / slip_decode
\* ------------------------------------------------------------------------
\* as SlipEscape, but the escape byte itself is not escaped
RECURSIVE SlipEscape_end_only(_)
SlipEscape_end_only(payload) ==
    IF payload = <<>> THEN <<>>
    ELSE LET b == Head(payload)
         IN  (IF b = SLIP_END THEN <<SLIP_ESCAPE, SLIP_ESC_END>>
              ELSE <<b>>) \o SlipEscape_end_only(Tail(payload))

RECURSIVE SlipEscape(_)
SlipEscape(payload) ==
    IF payload = <<>> THEN <<>>
    ELSE LET b == Head(payload)
         IN  (IF b = SLIP_END THEN <<SLIP_ESCAPE, SLIP_ESC_END>>
              ELSE IF b = SLIP_ESCAPE THEN <<SLIP_ESCAPE, SLIP_ESC_ESC>>
              ELSE <<b>>) \o SlipEscape(Tail(payload))

slip_encode(payload) == <<SLIP_END>> \o SlipEscape(payload) \o <<SLIP_END>>

\* the while loop of slip_decode; i is the Python index
RECURSIVE SlipUnescape(_, _)
SlipUnescape(frame, i) ==
    IF ~(i < Len(frame) - 1) THEN <<>>
    ELSE LET b == frame[i + 1]
         IN  IF b = SLIP_ESCAPE
             THEN IF i + 1 >= Len(frame) - 1 THEN <<>>
                  ELSE LET esc == frame[i + 2]
                       IN  (IF esc = SLIP_ESC_END THEN <<SLIP_END>>
                            ELSE IF esc = SLIP_ESC_ESC THEN <<SLIP_ESCAPE>>
                            ELSE <<b>>) \o SlipUnescape(frame, i + 2)
             ELSE <<b>> \o SlipUnescape(frame, i + 1)

slip_decode(frame) ==
    IF frame = <<>> \/ frame[1] # SLIP_END \/ frame[Len(frame)] # SLIP_END
    THEN <<>>
    ELSE SlipUnescape(frame, 1)

\* ------------------------------------------------------------------------
\* _extract_frame_from_rx: [frame |-> None or <<frame>>, rx |-> buffer after]
\* ------------------------------------------------------------------------
\* as _extract_frame_from_rx, but the closing END stays in the buffer
extract_leave_end(rx) ==
    LET start == IndexFrom(rx, SLIP_END, 1)
    IN  IF start = 0
        THEN [frame |-> None, rx |-> <<>>]
        ELSE LET r == SubSeq(rx, start, Len(rx))
                 end == IndexFrom(r, SLIP_END, 2)
             IN  IF end = 0
                 THEN [frame |-> None, rx |-> r]
                 ELSE [frame |-> Some(SubSeq(r, 1, end)),
                       rx |-> SubSeq(r, end, Len(r))]

\* as _extract_frame_from_rx, but an unfinished frame is dropped from the buffer
extract_drop_unfinished(rx) ==
    LET start == IndexFrom(rx, SLIP_END, 1)
    IN  IF start = 0
        THEN [frame |-> None, rx |-> <<>>]
        ELSE LET r == SubSeq(rx, start, Len(rx))
                 end == IndexFrom(r, SLIP_END, 2)
             IN  IF end = 0
                 THEN [frame |-> None, rx |-> <<>>]
                 ELSE [frame |-> Some(SubSeq(r, 1, end)),
                       rx |-> SubSeq(r, end + 1, Len(r))]

\* as _extract_frame_from_rx, but the junk before the first END is returned
\* with the frame
extract_keep_junk(rx) ==
    LET start == IndexFrom(rx, SLIP_END, 1)
    IN  IF start = 0
        THEN [frame |-> None, rx |-> <<>>]
        ELSE LET r == SubSeq(rx, start, Len(rx))
                 end == IndexFrom(r, SLIP_END, 2)
             IN  IF end = 0
                 THEN [frame |-> None, rx |-> r]
                 ELSE [frame |-> Some(SubSeq(rx, 1, start + end - 1)),
                       rx |-> SubSeq(r, end + 1, Len(r))]

_extract_frame_from_rx(rx) ==
    LET start == IndexFrom(rx, SLIP_END, 1)
    IN  IF start = 0
        THEN [frame |-> None, rx |-> <<>>]
        ELSE LET r == SubSeq(rx, start, Len(rx))
                 end == IndexFrom(r, SLIP_END, 2)
             IN  IF end = 0
                 THEN [frame |-> None, rx |-> r]
                 ELSE [frame |-> Some(SubSeq(r, 1, end)),
                       rx |-> SubSeq(r, end + 1, Len(r))]

\* ------------------------------------------------------------------------
\* parse_fuji_packet / build_fuji_packet
\* ------------------------------------------------------------------------
\* as DescrChain, but the continuation bit is never followed
DescrChain_single(decoded, chain, offset) ==
    [ok |-> TRUE, chain |-> chain, offset |-> offset]

\* the descriptor chain: [ok, chain, offset]
RECURSIVE DescrChain(_, _, _)
DescrChain(decoded, chain, offset) ==
    IF HighBit(chain[Len(chain)])
    THEN IF offset >= Len(decoded)
         THEN [ok |-> FALSE, chain |-> chain, offset |-> offset]
         ELSE DescrChain(decoded, Append(chain, decoded[offset + 1]), offset + 1)
    ELSE [ok |-> TRUE, chain |-> chain, offset |-> offset]

\* one little-endian value of `size` bytes at `offset`
RECURSIVE FieldValue(_, _, _)
FieldValue(decoded, offset, size) ==
    IF size = 0 THEN 0
    ELSE FieldValue(decoded, offset, size - 1)
         + decoded[offset + size] * Pow256(size - 1)

\* `count` values of `size` bytes: [ok, params, offset]
RECURSIVE ReadFields(_, _, _, _, _)
ReadFields(decoded, offset, count, size, params) ==
    IF count = 0 THEN [ok |-> TRUE, params |-> params, offset |-> offset]
    ELSE IF offset + size > Len(decoded)
         THEN [ok |-> FALSE, params |-> params, offset |-> offset]
         ELSE ReadFields(decoded, offset + size, count - 1, size,
                         Append(params, FieldValue(decoded, offset, size)))

\* the params of every descriptor byte in order: [ok, params, offset]
RECURSIVE ReadParams(_, _, _, _)
ReadParams(decoded, chain, offset, params) ==
    IF chain = <<>> THEN [ok |-> TRUE, params |-> params, offset |-> offset]
    ELSE LET field_desc == Head(chain) % 8
             r == ReadFields(decoded, offset, NUM_FIELDS_TABLE[field_desc + 1],
                             FIELD_SIZE_TABLE[field_desc + 1], params)
         IN  IF ~r.ok THEN r
             ELSE ReadParams(decoded, Tail(chain), r.offset, r.params)

parse_fuji_packet(decoded) ==
    IF Len(decoded) < HEADER_SIZE THEN None
    ELSE LET device == decoded[1]
             command == decoded[2]
             length == decoded[3] + 256 * decoded[4]
             checksum == decoded[5]
             descr == decoded[6]
             computed == calc_checksum([decoded EXCEPT ![5] = 0])
             ch == DescrChain(decoded, <<descr>>, HEADER_SIZE)
             ps == ReadParams(decoded, ch.chain, ch.offset, <<>>)
         IN  IF length # Len(decoded) THEN None
             ELSE IF ~ch.ok THEN None
             ELSE IF ~ps.ok THEN None
             ELSE Some([device |-> device,
                        command |-> command,
                        length |-> length,
                        checksum |-> checksum,
                        checksum_computed |-> computed,
                        checksum_ok |-> (computed = checksum),
                        descr |-> descr,
                        params |-> ps.params,
                        payload |-> SubSeq(decoded, ps.offset + 1, Len(decoded))])

\* as RawPacket, but the checksum is taken before the payload is copied in
RawPacket_header_checksum(device, command, payload) ==
    LET length == HEADER_SIZE + Len(payload)
        hdr == <<device % 256, command % 256, length % 256,
                 (length \div 256) % 256, 0, 0>>
    IN  [hdr EXCEPT ![5] = calc_checksum(hdr)] \o payload

\* the packet bytes before SLIP encoding (pkt in build_fuji_packet)
RawPacket(device, command, payload) ==
    LET length == HEADER_SIZE + Len(payload)
        pkt0 == <<device % 256, command % 256, length % 256,
                  (length \div 256) % 256, 0, 0>> \o payload
    IN  [pkt0 EXCEPT ![5] = calc_checksum(pkt0)]

build_fuji_packet(device, command, payload) ==
    slip_encode(RawPacket(device, command, payload))

\* ------------------------------------------------------------------------
\* State
\* ------------------------------------------------------------------------
VARIABLES
    \* FujiBusSession
    stash,      \* _stash: (device, command) -> list of packets; absent keys are absent
    rx,         \* _rx: bytes received and not yet framed
    \* the serial transport
    wire,       \* bytes the device has sent and the host has not read yet
    tx,         \* request frames written by the host, in order
    \* the running send_command_expect call
    pc,         \* "idle" | "outer" (line 95) | "inner" (line 144)
    expect,     \* (expect_device, expect_command) of the current / last call
    expired,    \* time.monotonic() >= deadline of the current call
    ret,        \* return value of the last finished call
    \* history of the run
    sent,       \* every byte the device has put on the wire
    emitted,    \* the response packets among them, in order
    nemit,      \* number of device emissions
    ncalls,     \* number of send_command_expect calls started
    log,        \* packets returned by _read_one_packet, in order
    delivered,  \* packets returned by send_command_expect, in order
    frames,     \* frames returned by _read_one_slip_frame, in order
    stash0,     \* stash when the current / last call began
    rx0         \* rx held an unfinished frame when the current / last call began

VARIABLES
    \* the SLIP framer exercised on its own
    sb1, sb2,   \* the two byte strings b1 and b2
    sphase,     \* "start" | "loaded" | "decoded"
    sbuf,       \* the receive buffer handed to _extract_frame_from_rx
    sout,       \* the results of the extractions so far (None or <<frame>>)
    sdec        \* result of slip_decode(slip_encode(b1)), once computed

VARIABLES
    \* build_fuji_packet / parse_fuji_packet exercised on their own
    pdev, pcmd, ppay,   \* device, command, payload handed to build
    pphase,             \* "start" | "built" | "parsed_wire" | "parsed"
    pwire,              \* what build_fuji_packet returned
    pres                \* what parse_fuji_packet returned

VARIABLES
    \* _send_retry (net_tcp.py)
    rpc,        \* "idle" | "top" (line 66) | "call" (line 76, waiting for the session)
    rcmd,       \* number of the logical command being sent; its payload is <<rcmd>>
    rattempt,   \* attempt
    rlate,      \* time.monotonic() >= deadline, as last observed
    rret        \* what the last finished _send_retry returned

VARIABLES
    \* calc_checksum exercised on its own
    cs_data,    \* the bytes handed to calc_checksum
    cs_chk,     \* None, or <<what calc_checksum returned>>
    \* parse_fuji_packet exercised on arbitrary decoded bytes
    decoded,    \* the bytes handed to parse_fuji_packet
    qphase,     \* "off" | "start" | "parsed"
    parsed      \* what parse_fuji_packet returned

sumVars == <<cs_data, cs_chk>>

parseVars == <<decoded, qphase, parsed>>

VARIABLES
    \* _send_retry_not_ready (net.py); times are in microseconds
    nr_pc,      \* "off" | "new" | "top" (line 136) | "call" (line 142) | "done"
    nr_sleep_s, \* sleep_s, the caller's backoff base
    nr_attempt, \* attempt
    nr_backoff, \* backoff
    nr_late,    \* time.monotonic() >= deadline, as last observed
    nr_slept,   \* the durations handed to time.sleep, in order
    nr_ret      \* what _send_retry_not_ready returned

notReadyVars == <<nr_pc, nr_sleep_s, nr_attempt, nr_backoff, nr_late, nr_slept,
                  nr_ret>>

VARIABLES
    \* the streaming read loops (net get, net send --read-response,
    \* net tcp sendrecv, file read-all, modem _drain)
    rd_path,    \* which loop runs, "off" when none
    rd_pc,      \* "off" | "request" | "wait" | "handle" | "done" | "failed"
    rd_offset,  \* the read cursor: offset / sess.read_offset / off
    rd_req,     \* the Read request in flight: [offset, max_bytes]
    rd_resp,    \* what the send helper returned: None or <<response>>
    rd_sink,    \* the bytes written to the sink (file, stdout, or `out`)
    rd_chunks,  \* file read-all without --out: the chunks held back
    rd_has_out, \* file read-all: --out was given
    rd_n        \* number of Read requests sent

readVars == <<rd_path, rd_pc, rd_offset, rd_req, rd_resp, rd_sink, rd_chunks,
              rd_has_out, rd_n>>

VARIABLES
    \* the chunked write loops (tcp_send, net send body upload, file write)
    wr_path,    \* which loop runs, "off" when none
    wr_pc,      \* "off" | "loop" | "wait" | "handle" | "done" | "failed"
    wr_data,    \* data, the bytes to write
    wr_chunk,   \* chunk / args.write_chunk / args.chunk
    wr_base,    \* the stream offset the loop started at
    wr_offset,  \* the write cursor: sess.write_offset / offset
    wr_idx,     \* the data position: total / offset / idx
    wr_req,     \* the Write request in flight: [offset, part]
    wr_resp,    \* what the send helper returned: None or <<response>>
    wr_log,     \* the Write requests sent, in order
    wr_acks     \* the `written` of the responses the loop advanced by, in order

writeVars == <<wr_path, wr_pc, wr_data, wr_chunk, wr_base, wr_offset, wr_idx,
               wr_req, wr_resp, wr_log, wr_acks>>

VARIABLES
    \* cmd_net_send (net.py); its body upload and its response read are the
    \* write loop and the read loop above, with path "net_send"
    ns_pc,            \* "off" | "open" | "body_check" | "body" | "info" |
                      \* "read_check" | "read" | "close" | "exit"
    ns_method,        \* args.method
    ns_hint,          \* body_len_hint
    ns_show_headers,  \* args.show_headers
    ns_read_response, \* args.read_response
    ns_out_refused,   \* --out names an existing file and --force is not given
    ns_open,          \* what the send helper returned for Open
    ns_handle,        \* None, or <<handle>> once Open was accepted
    ns_cmds,          \* the Open, Info and Close requests sent, in order
    ns_exit           \* None, or <<the exit code>>

netSendVars == <<ns_pc, ns_method, ns_hint, ns_show_headers, ns_read_response,
                 ns_out_refused, ns_open, ns_handle, ns_cmds, ns_exit>>

retryVars == <<rpc, rcmd, rattempt, rlate, rret>>

slipVars == <<sb1, sb2, sphase, sbuf, sout, sdec>>

pktVars == <<pdev, pcmd, ppay, pphase, pwire, pres>>

sessVars == <<stash, rx, wire, tx, pc, expect, expired, ret,
              sent, emitted, nemit, ncalls, log, delivered, frames, stash0,
              rx0>>

\* ------------------------------------------------------------------------
\* FujiBusSession.stash / FujiBusSession.pop
\* ------------------------------------------------------------------------
KeyOf(pkt) == <<pkt.device, pkt.command>>

\* self._stash.get(key), an absent key reading as the empty list
StashGet(st, key) == IF key \in DOMAIN st THEN st[key] ELSE <<>>

\* as session_stash, but the packet replaces the list of its key
session_stash_overwrite(st, pkt) ==
    LET key == KeyOf(pkt)
    IN  [k \in DOMAIN st \cup {key} |-> IF k = key THEN <<pkt>> ELSE st[k]]

session_stash(st, pkt) ==
    LET key == KeyOf(pkt)
    IN  [k \in DOMAIN st \cup {key} |-> IF k = key
                                        THEN Append(StashGet(st, key), pkt)
                                        ELSE st[k]]

\* as session_pop, but the newest packet of the key is taken (q.pop())
session_pop_last(st, key) ==
    LET q == StashGet(st, key)
    IN  IF q = <<>>
        THEN [pkt |-> None, stash |-> st]
        ELSE [pkt |-> Some(q[Len(q)]),
              stash |-> IF Len(q) = 1
                        THEN [k \in DOMAIN st \ {key} |-> st[k]]
                        ELSE [st EXCEPT ![key] = SubSeq(q, 1, Len(q) - 1)]]

\* [pkt |-> None or <<packet>>, stash |-> the stash after]
session_pop(st, key) ==
    LET q == StashGet(st, key)
    IN  IF q = <<>>
        THEN [pkt |-> None, stash |-> st]
        ELSE [pkt |-> Some(Head(q)),
              stash |-> IF Tail(q) = <<>>
                        THEN [k \in DOMAIN st \ {key} |-> st[k]]
                        ELSE [st EXCEPT ![key] = Tail(q)]]

\* the buffer holds the start of a frame and no complete frame
Unfinished(buf) ==
    LET e == _extract_frame_from_rx(buf)
    IN  e.frame = None /\ Len(e.rx) >= 2

\* _read_one_packet once a frame is at hand: None or <<packet>>
DecodeFrame(frame) == parse_fuji_packet(slip_decode(frame))

\* ------------------------------------------------------------------------
\* FujiBusSession.send_command_expect, one step per loop iteration
\* ------------------------------------------------------------------------
READ_CHUNK == 256

\* the call returns `value` (None or <<packet>>)
Return(value) ==
    /\ pc' = "idle"
    /\ ret' = value
    /\ delivered' = IF value = None THEN delivered ELSE Append(delivered, value[1])

\* lines 85-94: pop a stashed match, or send the request and start waiting
SendCommandExpect(device, command, payload, key) ==
    /\ pc = "idle"
    /\ LET hit == session_pop(stash, key)
       IN  /\ expect' = key
           /\ stash0' = stash
           /\ rx0' = Unfinished(rx)
           /\ ncalls' = ncalls + 1
           /\ expired' = FALSE
           /\ IF hit.pkt # None
              THEN /\ stash' = hit.stash
                   /\ Return(hit.pkt)
                   /\ tx' = tx
              ELSE /\ tx' = Append(tx, build_fuji_packet(device, command, payload))
                   /\ pc' = "outer"
                   /\ ret' = None
                   /\ UNCHANGED <<stash, delivered>>
    /\ UNCHANGED <<rx, wire, sent, emitted, nemit, log, frames>>

\* as OuterLoop, but a call that times out empties the stash
OuterLoop_clear_on_timeout ==
    /\ pc = "outer"
    /\ \E late \in {expired, TRUE} :
          /\ expired' = late
          /\ IF late
             THEN /\ Return(None)
                  /\ stash' = <<>>
             ELSE LET hit == session_pop(stash, expect)
                  IN  IF hit.pkt # None
                      THEN /\ stash' = hit.stash
                           /\ Return(hit.pkt)
                      ELSE /\ pc' = "inner"
                           /\ UNCHANGED <<stash, ret, delivered>>
    /\ UNCHANGED <<rx, wire, tx, expect, sent, emitted, nemit, ncalls, log,
                   frames, stash0, rx0>>

\* lines 95-99 and 111: the deadline test of the outer loop and the pop in it.
\* `late` is the outcome of time.monotonic() >= deadline; the clock never
\* runs backwards, so once a test has seen the deadline pass every later one
\* does
OuterLoop ==
    /\ pc = "outer"
    /\ \E late \in {expired, TRUE} :
          /\ expired' = late
          /\ IF late
             THEN /\ Return(None)
                  /\ UNCHANGED stash
             ELSE LET hit == session_pop(stash, expect)
                  IN  IF hit.pkt # None
                      THEN /\ stash' = hit.stash
                           /\ Return(hit.pkt)
                      ELSE /\ pc' = "inner"
                           /\ UNCHANGED <<stash, ret, delivered>>
    /\ UNCHANGED <<rx, wire, tx, expect, sent, emitted, nemit, ncalls, log,
                   frames, stash0, rx0>>

\* as HandleFrame, but the first parseable packet is returned whatever its key
HandleFrame_any_key(frame) ==
    LET pkt == DecodeFrame(frame)
    IN  /\ frames' = Append(frames, frame)
        /\ IF pkt = None
           THEN /\ pc' = "outer"
                /\ UNCHANGED <<stash, ret, delivered, log>>
           ELSE /\ log' = Append(log, pkt[1])
                /\ Return(pkt)
                /\ UNCHANGED stash

\* lines 101-109 with a frame at hand: parse it, return a match, stash the rest
HandleFrame(frame) ==
    LET pkt == DecodeFrame(frame)
    IN  /\ frames' = Append(frames, frame)
        /\ IF pkt = None
           THEN /\ pc' = "outer"
                /\ UNCHANGED <<stash, ret, delivered, log>>
           ELSE /\ log' = Append(log, pkt[1])
                /\ IF KeyOf(pkt[1]) = expect
                   THEN /\ Return(pkt)
                        /\ UNCHANGED stash
                   ELSE /\ stash' = session_stash(stash, pkt[1])
                        /\ pc' = "outer"
                        /\ UNCHANGED <<ret, delivered>>

\* one iteration of the loop of _read_one_slip_frame (lines 144-159): leave at
\* the deadline, return a buffered frame, or read one chunk from the port
InnerLoop ==
    /\ pc = "inner"
    /\ \E late \in {expired, TRUE} :
          /\ expired' = late
          /\ IF late
             THEN /\ pc' = "outer"
                  /\ UNCHANGED <<stash, rx, wire, ret, delivered, log, frames>>
             ELSE LET e == _extract_frame_from_rx(rx)
                  IN  IF e.frame # None
                      THEN /\ rx' = e.rx
                           /\ HandleFrame(e.frame[1])
                           /\ UNCHANGED wire
                      ELSE \E n \in 0..Len(wire) :
                              /\ n <= READ_CHUNK
                              /\ (n = 0) <=> (wire = <<>>)
                              /\ rx' = e.rx \o SubSeq(wire, 1, n)
                              /\ wire' = SubSeq(wire, n + 1, Len(wire))
                              /\ UNCHANGED <<stash, pc, ret, delivered, log,
                                             frames>>
    /\ UNCHANGED <<tx, expect, sent, emitted, nemit, ncalls, stash0, rx0>>

\* ------------------------------------------------------------------------
\* The device side of the session specification: any mix of response packets
\* and line noise
\* ------------------------------------------------------------------------
NETWORK_DEVICE_ID == 253
CMD_READ == 2
CMD_CLOSE == 4
CMD_INFO == 5
\* the keys the device answers under, and the keys callers wait for
Keys == {<<NETWORK_DEVICE_ID, CMD_READ>>, <<NETWORK_DEVICE_ID, CMD_INFO>>}
CallKeys == Keys \cup {<<NETWORK_DEVICE_ID, CMD_CLOSE>>}

\* a response as the device frames it: descr = 1, one u8 param (the status)
DeviceResponse(device, command, status, payload) ==
    LET length == HEADER_SIZE + 1 + Len(payload)
        pkt0 == <<device, command, length % 256, (length \div 256) % 256, 0, 1,
                  status>> \o payload
    IN  slip_encode([pkt0 EXCEPT ![5] = calc_checksum(pkt0)])

EmptyFrame == <<SLIP_END, SLIP_END>>
LoneEnd == <<SLIP_END>>
JunkByte == <<1>>
Garbage == {EmptyFrame, LoneEnd, JunkByte}

\* the n-th emission: a response whose payload is n, or garbage
Traffic(n) == {DeviceResponse(k[1], k[2], 0, <<n>>) : k \in Keys} \cup Garbage

DeviceEmit ==
    /\ nemit < MaxEmit
    /\ \E f \in Traffic(nemit + 1) :
          /\ wire' = wire \o f
          /\ sent' = sent \o f
          /\ emitted' = IF f \in Garbage THEN emitted
                        ELSE Append(emitted, DecodeFrame(f)[1])
    /\ nemit' = nemit + 1
    /\ UNCHANGED <<stash, rx, tx, pc, expect, expired, ret, ncalls, log,
                   delivered, frames, stash0, rx0>>

\* a caller sends a request and waits for the response under the same key
\* (every caller in the tools expects the key it sends)
ClientCall ==
    /\ ncalls < MaxCalls
    /\ \E k \in CallKeys : SendCommandExpect(k[1], k[2], <<>>, k)

SessInit ==
    /\ stash = <<>>
    /\ rx = <<>>
    /\ wire = <<>>
    /\ tx = <<>>
    /\ pc = "idle"
    /\ expect = <<0, 0>>
    /\ expired = FALSE
    /\ ret = None
    /\ sent = <<>>
    /\ emitted = <<>>
    /\ nemit = 0
    /\ ncalls = 0
    /\ log = <<>>
    /\ delivered = <<>>
    /\ frames = <<>>
    /\ stash0 = <<>>
    /\ rx0 = FALSE

\* ------------------------------------------------------------------------
\* _send_retry over the session, against a device that answers every request
\* it receives exactly once, after any delay
\* ------------------------------------------------------------------------
STATUS_OK == 0
STATUS_DEVICE_BUSY == 3
STATUS_NOT_READY == 4

_pkt_status_code(pkt) ==
    IF pkt = None \/ pkt[1].params = <<>> THEN -1 ELSE pkt[1].params[1]

RetryInit ==
    /\ rpc = "idle"
    /\ rcmd = 0
    /\ rattempt = 0
    /\ rlate = FALSE
    /\ rret = None

\* a caller starts _send_retry for its next logical command (lines 60-64)
RetryStart ==
    /\ rpc = "idle"
    /\ pc = "idle"
    /\ rcmd < MaxCmds
    /\ rcmd' = rcmd + 1
    /\ rattempt' = 0
    /\ rlate' = FALSE
    /\ rpc' = "top"
    /\ UNCHANGED <<rret, sessVars>>

\* lines 66-84: give up at the overall deadline, or make one more attempt
RetryTop ==
    /\ rpc = "top"
    /\ \E late \in {rlate, TRUE} :
          /\ rlate' = late
          /\ IF late
             THEN /\ rret' = None
                  /\ rpc' = "idle"
                  /\ UNCHANGED <<rattempt, sessVars>>
             ELSE /\ rattempt' = rattempt + 1
                  /\ SendCommandExpect(NETWORK_DEVICE_ID, CMD_READ, <<rcmd>>,
                                       <<NETWORK_DEVICE_ID, CMD_READ>>)
                  /\ rpc' = "call"
                  /\ UNCHANGED rret
    /\ UNCHANGED rcmd

\* lines 86-101: the attempt has returned `ret`
RetryAfter ==
    /\ rpc = "call"
    /\ pc = "idle"
    /\ \E late \in {rlate, TRUE} :
          /\ rlate' = late
          /\ LET sc == _pkt_status_code(ret)
                 last == rattempt >= MaxRetries \/ late
             IN  IF ret = None
                 THEN IF last
                      THEN rret' = None /\ rpc' = "idle"
                      ELSE rpc' = "top" /\ UNCHANGED rret
                 ELSE IF sc \notin {STATUS_DEVICE_BUSY, STATUS_NOT_READY}
                      THEN rret' = ret /\ rpc' = "idle"
                      ELSE IF last
                           THEN rret' = ret /\ rpc' = "idle"
                           ELSE rpc' = "top" /\ UNCHANGED rret
    /\ UNCHANGED <<rcmd, rattempt, sessVars>>

\* the device answers the oldest request it has not answered yet, echoing the
\* request's payload in the response, with one of the given statuses
DeviceAnswerWith(statuses) ==
    /\ tx # <<>>
    /\ LET req == DecodeFrame(Head(tx))[1]
       IN  \E status \in statuses :
              LET f == DeviceResponse(req.device, req.command, status, req.payload)
              IN  /\ wire' = wire \o f
                  /\ sent' = sent \o f
                  /\ emitted' = Append(emitted, DecodeFrame(f)[1])
    /\ tx' = Tail(tx)
    /\ nemit' = nemit + 1
    /\ UNCHANGED <<stash, rx, pc, expect, expired, ret, ncalls, log, delivered,
                   frames, stash0, rx0>>

DeviceAnswer ==
    /\ DeviceAnswerWith({STATUS_OK, STATUS_NOT_READY})
    /\ UNCHANGED retryVars

\* ------------------------------------------------------------------------
\* _send_retry_not_ready (net.py) over the session
\* ------------------------------------------------------------------------
\* 0.001 s and 0.05 s, in microseconds
BACKOFF_MIN == 1000
BACKOFF_MAX == 50000

Max(a, b) == IF a >= b THEN a ELSE b
Min(a, b) == IF a <= b THEN a ELSE b

\* the sleep_s values callers pass: 0.001, 0.005, 0.01, and the default of
\* net get's --info-sleep, 0.1; 0 stands for a user's --info-sleep 0
SleepSample == {0, 1000, 5000, 10000, 100000}

\* backoff * 1.5, fractions of a microsecond dropped
Times1_5(t) == (t * 3) \div 2

NotReadyInit ==
    /\ nr_pc = "new"
    /\ nr_sleep_s \in SleepSample
    /\ nr_attempt = 0
    /\ nr_backoff = 0
    /\ nr_late = FALSE
    /\ nr_slept = <<>>
    /\ nr_ret = None

NotReadyIdle ==
    /\ nr_pc = "off"
    /\ nr_sleep_s = 0
    /\ nr_attempt = 0
    /\ nr_backoff = 0
    /\ nr_late = FALSE
    /\ nr_slept = <<>>
    /\ nr_ret = None

\* lines 130-133
NotReadyStart ==
    /\ nr_pc = "new"
    /\ pc = "idle"
    /\ nr_attempt' = 0
    /\ nr_backoff' = Max(BACKOFF_MIN, nr_sleep_s)
    /\ nr_late' = FALSE
    /\ nr_pc' = "top"
    /\ UNCHANGED <<nr_sleep_s, nr_slept, nr_ret, sessVars>>

\* lines 135-150: give up at the overall deadline, or make one more attempt
NotReadyTop ==
    /\ nr_pc = "top"
    /\ nr_attempt' = nr_attempt + 1
    /\ \E late \in {nr_late, TRUE} :
          /\ nr_late' = late
          /\ IF late
             THEN /\ nr_ret' = None
                  /\ nr_pc' = "done"
                  /\ UNCHANGED sessVars
             ELSE /\ SendCommandExpect(NETWORK_DEVICE_ID, CMD_INFO, <<>>,
                                       <<NETWORK_DEVICE_ID, CMD_INFO>>)
                  /\ nr_pc' = "call"
                  /\ UNCHANGED nr_ret
    /\ UNCHANGED <<nr_sleep_s, nr_backoff, nr_slept>>

\* lines 155-157 and 166-167: time.sleep(backoff), then the next backoff
NotReadySleep ==
    /\ nr_slept' = Append(nr_slept, nr_backoff)
    /\ nr_backoff' = Min(BACKOFF_MAX, Times1_5(nr_backoff))
    /\ nr_pc' = "top"
    /\ UNCHANGED nr_ret

\* lines 152-167: the attempt has returned `ret`
NotReadyAfter ==
    /\ nr_pc = "call"
    /\ pc = "idle"
    /\ \E late \in {nr_late, TRUE} :
          /\ nr_late' = late
          /\ LET status == _pkt_status_code(ret)
                 last == nr_attempt >= MaxRetries \/ late
             IN  IF ret = None
                 THEN IF last
                      THEN /\ nr_ret' = None
                           /\ nr_pc' = "done"
                           /\ UNCHANGED <<nr_backoff, nr_slept>>
                      ELSE NotReadySleep
                 ELSE IF status # STATUS_NOT_READY
                      THEN /\ nr_ret' = ret
                           /\ nr_pc' = "done"
                           /\ UNCHANGED <<nr_backoff, nr_slept>>
                      ELSE IF last
                           THEN /\ nr_ret' = ret
                                /\ nr_pc' = "done"
                                /\ UNCHANGED <<nr_backoff, nr_slept>>
                           ELSE NotReadySleep
    /\ UNCHANGED <<nr_sleep_s, nr_attempt, sessVars>>

\* a device that may also answer DeviceBusy
DeviceAnswerBusy ==
    DeviceAnswerWith({STATUS_OK, STATUS_DEVICE_BUSY, STATUS_NOT_READY})

\* ------------------------------------------------------------------------
\* The SLIP framer on its own: two frames back to back, and the round trip
\* ------------------------------------------------------------------------
ByteSample == {0, 65, SLIP_END, SLIP_ESCAPE, SLIP_ESC_END, SLIP_ESC_ESC}

ByteStrings(n) == UNION {[1..k -> ByteSample] : k \in 0..n}

SlipInit ==
    /\ sb1 \in ByteStrings(MaxLen)
    /\ sb2 \in ByteStrings(MaxLen2)
    /\ sphase = "start"
    /\ sbuf = <<>>
    /\ sout = <<>>
    /\ sdec = None

SlipIdle ==
    /\ sb1 = <<>>
    /\ sb2 = <<>>
    /\ sphase = "off"
    /\ sbuf = <<>>
    /\ sout = <<>>
    /\ sdec = None

\* the buffer receives encode(b1) ++ encode(b2)
SlipLoad ==
    /\ sphase = "start"
    /\ sbuf' = slip_encode(sb1) \o slip_encode(sb2)
    /\ sphase' = "loaded"
    /\ UNCHANGED <<sb1, sb2, sout, sdec>>

\* self._rx.extend(chunk): the buffer receives the bytes b1 and b2 as read
\* from the port, whatever they are
SlipReceive ==
    /\ sphase = "start"
    /\ sbuf' = sb1 \o sb2
    /\ sphase' = "loaded"
    /\ UNCHANGED <<sb1, sb2, sout, sdec>>

\* one call of _extract_frame_from_rx on the buffer (three at most)
SlipExtract ==
    /\ sphase = "loaded"
    /\ Len(sout) < 3
    /\ LET e == _extract_frame_from_rx(sbuf)
       IN  /\ sbuf' = e.rx
           /\ sout' = Append(sout, e.frame)
    /\ UNCHANGED <<sb1, sb2, sphase, sdec>>

\* slip_decode(slip_encode(b1))
SlipRoundTrip ==
    /\ sphase = "start"
    /\ sdec' = Some(slip_decode(slip_encode(sb1)))
    /\ sphase' = "decoded"
    /\ UNCHANGED <<sb1, sb2, sbuf, sout>>

\* ------------------------------------------------------------------------
\* build_fuji_packet and parse_fuji_packet on their own
\* ------------------------------------------------------------------------
DeviceSample == {0, 69, SLIP_END, NETWORK_DEVICE_ID, 255}
CommandSample == {0, 1, SLIP_ESCAPE, 255}
PayloadSample == {0, 1, SLIP_END, SLIP_ESCAPE, 255}

Payloads(n) == UNION {[1..k -> PayloadSample] : k \in 0..n}

PktInit ==
    /\ pdev \in DeviceSample
    /\ pcmd \in CommandSample
    /\ ppay \in Payloads(MaxPayload)
    /\ pphase = "start"
    /\ pwire = <<>>
    /\ pres = None

PktIdle ==
    /\ pdev = 0
    /\ pcmd = 0
    /\ ppay = <<>>
    /\ pphase = "off"
    /\ pwire = <<>>
    /\ pres = None

PktBuild ==
    /\ pphase = "start"
    /\ pwire' = build_fuji_packet(pdev, pcmd, ppay)
    /\ pphase' = "built"
    /\ UNCHANGED <<pdev, pcmd, ppay, pres>>

\* parse_fuji_packet applied to what build_fuji_packet returned
PktParseWire ==
    /\ pphase = "built"
    /\ pres' = parse_fuji_packet(pwire)
    /\ pphase' = "parsed_wire"
    /\ UNCHANGED <<pdev, pcmd, ppay, pwire>>

\* parse_fuji_packet applied to the slip_decode of it, as _read_one_packet does
PktParseDecoded ==
    /\ pphase = "built"
    /\ pres' = DecodeFrame(pwire)
    /\ pphase' = "parsed"
    /\ UNCHANGED <<pdev, pcmd, ppay, pwire>>

\* ------------------------------------------------------------------------
\* calc_checksum on its own
\* ------------------------------------------------------------------------
SumSample == {0, 1, 128, 254, 255}

SumStrings(n) == UNION {[1..k -> SumSample] : k \in 0..n}

SumInit ==
    /\ cs_data \in SumStrings(MaxSumLen)
    /\ cs_chk = None

SumIdle ==
    /\ cs_data = <<>>
    /\ cs_chk = Some(0)

SumCall ==
    /\ cs_chk = None
    /\ cs_chk' = Some(calc_checksum(cs_data))
    /\ UNCHANGED cs_data

\* ------------------------------------------------------------------------
\* parse_fuji_packet on arbitrary decoded bytes
\* ------------------------------------------------------------------------
DecodedSample == {0, 1, 6, 7}

DecodedStrings(n) == UNION {[1..k -> DecodedSample] : k \in 0..n}

\* descriptor bytes with the continuation bit: 0x81 (one 1-byte param) and
\* 0x85 (one 2-byte param)
ChainSample == {129, 133}

\* a run of continued descriptor bytes followed by bytes without the bit
ChainBodies(n) ==
    UNION {{h \o l : h \in [1..p[1] -> ChainSample],
                     l \in [1..p[2] -> DecodedSample]} :
             p \in {q \in (0..n) \X (0..n) : q[1] + q[2] \in 1..n}}

\* a packet with a true length and checksum around a descriptor byte and
\* what follows it
ChainPacket(body) ==
    LET pkt0 == <<1, 2, (HEADER_SIZE - 1 + Len(body)) % 256, 0, 0>> \o body
    IN  [pkt0 EXCEPT ![5] = calc_checksum(pkt0)]

ParseInit ==
    /\ decoded \in DecodedStrings(MaxDecoded)
                    \cup {ChainPacket(b) : b \in ChainBodies(MaxChainBody)}
    /\ qphase = "start"
    /\ parsed = None

ParseIdle ==
    /\ decoded = <<>>
    /\ qphase = "off"
    /\ parsed = None

ParseCall ==
    /\ qphase = "start"
    /\ parsed' = parse_fuji_packet(decoded)
    /\ qphase' = "parsed"
    /\ UNCHANGED decoded

\* ------------------------------------------------------------------------
\* The streaming read loops.  A response is held as its parsed fields:
\* the status param, and the offset, data and eof of parse_read_resp.
\* ------------------------------------------------------------------------
STATUS_IO_ERROR == 5

ReadPaths == {"net_get", "net_send", "tcp_sendrecv", "file_read_all",
              "modem_drain"}

\* status_ok (common.py)
status_ok(resp) == resp # None /\ resp[1].status = STATUS_OK

\* device side: the bytes of the stream are numbered, the byte at stream
\* offset o being o + 1
StreamData(offset, n) == [j \in 1..n |-> offset + j]

\* device side: no response in time, an error status, or an Ok response that
\* echoes the requested offset or another one, with up to max_bytes of data
ReadAnswers(req) ==
    {None}
    \cup {Some([status |-> st, offset |-> req.offset, data |-> <<>>,
                eof |-> FALSE]) : st \in {STATUS_NOT_READY, STATUS_IO_ERROR}}
    \cup {Some([status |-> STATUS_OK, offset |-> o, data |-> StreamData(o, n),
                eof |-> e]) :
            o \in {req.offset, req.offset + 1}, n \in 0..req.max_bytes,
            e \in BOOLEAN}

\* the Read request is built from the cursor and handed to the send helper
RdRequest ==
    /\ rd_pc = "request"
    /\ rd_n < MaxReads
    /\ rd_req' = [offset |-> rd_offset, max_bytes |-> MaxChunk]
    /\ rd_n' = rd_n + 1
    /\ rd_pc' = "wait"
    /\ UNCHANGED <<rd_path, rd_offset, rd_resp, rd_sink, rd_chunks, rd_has_out>>

DeviceReadAnswer ==
    /\ rd_pc = "wait"
    /\ rd_resp' \in ReadAnswers(rd_req)
    /\ rd_pc' = "handle"
    /\ UNCHANGED <<rd_path, rd_offset, rd_req, rd_sink, rd_chunks, rd_has_out,
                   rd_n>>

\* the test every loop makes on the echoed offset, here passed by any echo
OffsetEchoOk_unchecked(resp, offset) == TRUE

\* `rr.offset != offset` (net.py 438, 685; net_tcp.py 329; file.py 135;
\* modem.py 117)
OffsetEchoOk(resp, offset) == resp.offset = offset

RdFail ==
    /\ rd_pc' = "failed"
    /\ UNCHANGED <<rd_offset, rd_sink, rd_chunks>>

\* cmd_net_get, net.py 414-465
RdNetGet ==
    /\ rd_pc = "handle"
    /\ rd_path = "net_get"
    /\ IF ~status_ok(rd_resp) THEN RdFail
       ELSE LET rr == rd_resp[1]
                n == Len(rr.data)
            IN  IF ~OffsetEchoOk(rr, rd_offset) THEN RdFail
                ELSE /\ rd_sink' = rd_sink \o rr.data
                     /\ rd_offset' = rd_offset + n
                     /\ UNCHANGED rd_chunks
                     /\ IF rr.eof THEN rd_pc' = "done"
                        ELSE IF n = 0
                             \* idle_deadline is finite once data has arrived
                             THEN \E idle \in {FALSE, rd_sink # <<>>} :
                                     rd_pc' = IF idle THEN "done" ELSE "request"
                             ELSE rd_pc' = "request"
    /\ UNCHANGED <<rd_path, rd_req, rd_resp, rd_has_out, rd_n>>

\* cmd_net_send --read-response, net.py 663-705
RdNetSend ==
    /\ rd_pc = "handle"
    /\ rd_path = "net_send"
    /\ IF ~status_ok(rd_resp) THEN RdFail
       ELSE LET rr == rd_resp[1]
                n == Len(rr.data)
            IN  IF ~OffsetEchoOk(rr, rd_offset) THEN RdFail
                ELSE /\ rd_sink' = rd_sink \o rr.data
                     /\ rd_offset' = rd_offset + n
                     /\ UNCHANGED rd_chunks
                     /\ rd_pc' = IF rr.eof THEN "done" ELSE "request"
    /\ UNCHANGED <<rd_path, rd_req, rd_resp, rd_has_out, rd_n>>

\* tcp_recv_some (net_tcp.py 297-333) inside the receive loop of
\* cmd_net_tcp_sendrecv (net_tcp.py 653-685)
RdTcpSendrecv ==
    /\ rd_pc = "handle"
    /\ rd_path = "tcp_sendrecv"
    /\ IF rd_resp = None THEN RdFail
       ELSE LET rr == rd_resp[1]
            IN  IF rr.status = STATUS_NOT_READY
                \* (b"", False): nothing to write, stop only when idle
                THEN /\ UNCHANGED <<rd_offset, rd_sink, rd_chunks>>
                     /\ \E idle \in BOOLEAN :
                           rd_pc' = IF idle THEN "done" ELSE "request"
                ELSE IF rr.status # STATUS_OK
                \* IOError after some bytes were received counts as eof
                THEN IF rr.status = STATUS_IO_ERROR /\ rd_sink # <<>>
                     THEN /\ rd_pc' = "done"
                          /\ UNCHANGED <<rd_offset, rd_sink, rd_chunks>>
                     ELSE RdFail
                ELSE IF ~OffsetEchoOk(rr, rd_offset) THEN RdFail
                ELSE /\ rd_offset' = rd_offset + Len(rr.data)
                     /\ rd_sink' = rd_sink \o rr.data
                     /\ UNCHANGED rd_chunks
                     /\ IF rr.eof THEN rd_pc' = "done"
                        ELSE \E idle \in {FALSE, rr.data = <<>>} :
                                rd_pc' = IF idle THEN "done" ELSE "request"
    /\ UNCHANGED <<rd_path, rd_req, rd_resp, rd_has_out, rd_n>>

\* cmd_read_all, file.py 105-162
RdFileReadAll ==
    /\ rd_pc = "handle"
    /\ rd_path = "file_read_all"
    /\ IF ~status_ok(rd_resp) THEN RdFail
       ELSE LET rr == rd_resp[1]
                n == Len(rr.data)
                stop == rr.eof \/ n = 0
                held == IF rd_has_out THEN rd_chunks ELSE rd_chunks \o rr.data
            IN  IF ~OffsetEchoOk(rr, rd_offset) THEN RdFail
                ELSE /\ rd_offset' = rd_offset + n
                     /\ rd_pc' = IF stop THEN "done" ELSE "request"
                     \* with --out each chunk is appended to the file; without
                     \* it the chunks are written to stdout after the loop
                     /\ rd_sink' = IF rd_has_out THEN rd_sink \o rr.data
                                   ELSE IF stop THEN rd_sink \o held
                                   ELSE rd_sink
                     /\ rd_chunks' = IF stop THEN <<>> ELSE held
    /\ UNCHANGED <<rd_path, rd_req, rd_resp, rd_has_out, rd_n>>

\* _drain, modem.py 82-130; `out` is the sink, and a response that does not
\* come ends the drain without an error
RdModemDrain ==
    /\ rd_pc = "handle"
    /\ rd_path = "modem_drain"
    /\ IF rd_resp = None
       THEN /\ rd_pc' = "done"
            /\ UNCHANGED <<rd_offset, rd_sink, rd_chunks>>
       ELSE IF ~status_ok(rd_resp) THEN RdFail
       ELSE LET rr == rd_resp[1]
            IN  IF ~OffsetEchoOk(rr, rd_offset) THEN RdFail
                ELSE IF rr.data # <<>>
                THEN /\ rd_sink' = rd_sink \o rr.data
                     /\ rd_offset' = rd_offset + Len(rr.data)
                     /\ UNCHANGED rd_chunks
                     /\ rd_pc' = IF Len(rd_sink') < MaxTotal THEN "request"
                                 ELSE "done"
                ELSE /\ UNCHANGED <<rd_offset, rd_sink, rd_chunks>>
                     /\ \E idle \in BOOLEAN :
                           rd_pc' = IF idle THEN "done" ELSE "request"
    /\ UNCHANGED <<rd_path, rd_req, rd_resp, rd_has_out, rd_n>>

\* a read loop starts: the cursor is 0, or for _drain the host_read_cursor
\* the device reported
ReadInit ==
    /\ rd_path \in ReadPaths
    /\ rd_pc = "request"
    /\ rd_offset \in (IF rd_path = "modem_drain" THEN 0..MaxCursor ELSE {0})
    /\ rd_req = [offset |-> 0, max_bytes |-> 0]
    /\ rd_resp = None
    /\ rd_sink = <<>>
    /\ rd_chunks = <<>>
    /\ rd_has_out \in (IF rd_path = "file_read_all" THEN BOOLEAN ELSE {TRUE})
    /\ rd_n = 0

ReadIdle ==
    /\ rd_path = "off"
    /\ rd_pc = "off"
    /\ rd_offset = 0
    /\ rd_req = [offset |-> 0, max_bytes |-> 0]
    /\ rd_resp = None
    /\ rd_sink = <<>>
    /\ rd_chunks = <<>>
    /\ rd_has_out = TRUE
    /\ rd_n = 0

\* ------------------------------------------------------------------------
\* The chunked write loops.  A response is held as its parsed fields: the
\* status param, and the offset and written of parse_write_resp.
\* ------------------------------------------------------------------------
WritePaths == {"tcp_send", "net_send", "file_write"}

\* device side: no response in time, an error status, or an Ok response that
\* echoes the requested offset or another one and reports that all, some or
\* none of the chunk was written
WriteAnswers(req) ==
    {None}
    \cup {Some([status |-> STATUS_IO_ERROR, offset |-> req.offset,
                written |-> 0])}
    \cup {Some([status |-> STATUS_OK, offset |-> o, written |-> w]) :
            o \in {req.offset, req.offset + 1}, w \in 0..Len(req.part)}

\* data[from : from + n] for a 0-based position
Slice(data, from, n) == SubSeq(data, from + 1, Min(from + n, Len(data)))

\* the loop head: `while total < len(data)`, then the next chunk is built
\* from the cursors and handed to the send helper
WrLoop ==
    /\ wr_pc = "loop"
    /\ IF wr_idx < Len(wr_data)
       THEN /\ wr_req' = [offset |-> wr_offset,
                          part |-> Slice(wr_data, wr_idx, wr_chunk)]
            /\ wr_log' = Append(wr_log, wr_req')
            /\ wr_pc' = "wait"
       ELSE /\ wr_pc' = "done"
            /\ UNCHANGED <<wr_req, wr_log>>
    /\ UNCHANGED <<wr_path, wr_data, wr_chunk, wr_base, wr_offset, wr_idx,
                   wr_resp, wr_acks>>

DeviceWriteAnswer ==
    /\ wr_pc = "wait"
    /\ wr_resp' \in WriteAnswers(wr_req)
    /\ wr_pc' = "handle"
    /\ UNCHANGED <<wr_path, wr_data, wr_chunk, wr_base, wr_offset, wr_idx,
                   wr_req, wr_log, wr_acks>>

WrFail ==
    /\ wr_pc' = "failed"
    /\ UNCHANGED <<wr_offset, wr_idx, wr_acks>>

\* the cursors move on by the chunk length, whatever `written` says
WrAdvance_by_chunk(written) ==
    /\ wr_offset' = wr_offset + Len(wr_req.part)
    /\ wr_idx' = wr_idx + Len(wr_req.part)
    /\ wr_acks' = Append(wr_acks, written)

\* `sess.write_offset += wr.written; total += wr.written` (net_tcp.py 263-264;
\* net.py 633; file.py 206-208)
WrAdvance(written) ==
    /\ wr_offset' = wr_offset + written
    /\ wr_idx' = wr_idx + written
    /\ wr_acks' = Append(wr_acks, written)

\* tcp_send, net_tcp.py 240-266: the echoed offset is not looked at
WrTcpSend ==
    /\ wr_pc = "handle"
    /\ wr_path = "tcp_send"
    /\ IF ~status_ok(wr_resp) THEN WrFail
       ELSE LET wr == wr_resp[1]
            IN  IF wr.written <= 0 THEN WrFail
                ELSE WrAdvance(wr.written) /\ wr_pc' = "loop"
    /\ UNCHANGED <<wr_path, wr_data, wr_chunk, wr_base, wr_req, wr_resp, wr_log>>

\* cmd_net_send body upload, net.py 608-633: the echoed offset is not looked at
WrNetSend ==
    /\ wr_pc = "handle"
    /\ wr_path = "net_send"
    /\ IF ~status_ok(wr_resp) THEN WrFail
       ELSE LET wr == wr_resp[1]
            IN  IF wr.written = 0 THEN WrFail
                ELSE WrAdvance(wr.written) /\ wr_pc' = "loop"
    /\ UNCHANGED <<wr_path, wr_data, wr_chunk, wr_base, wr_req, wr_resp, wr_log>>

\* cmd_write, file.py 165-217: after `written` = 0 the loop is left by
\* `break` and the command returns 0
WrFileWrite ==
    /\ wr_pc = "handle"
    /\ wr_path = "file_write"
    /\ IF ~status_ok(wr_resp) THEN WrFail
       ELSE LET wr == wr_resp[1]
                wrote == IF wr.written < 0 THEN 0 ELSE wr.written
            IN  IF ~OffsetEchoOk(wr, wr_offset) THEN WrFail
                ELSE /\ WrAdvance(wrote)
                     /\ wr_pc' = IF wrote = 0 THEN "done" ELSE "loop"
    /\ UNCHANGED <<wr_path, wr_data, wr_chunk, wr_base, wr_req, wr_resp, wr_log>>

\* the bytes to write are numbered from 1, so that a byte names its position
WriteInit ==
    /\ wr_path \in WritePaths
    /\ wr_pc = "loop"
    /\ wr_data \in {[i \in 1..n |-> i] : n \in 0..MaxData}
    /\ wr_chunk \in 1..MaxChunk
    /\ wr_base \in (IF wr_path = "net_send" THEN {0} ELSE 0..MaxCursor)
    /\ wr_offset = wr_base
    /\ wr_idx = 0
    /\ wr_req = [offset |-> 0, part |-> <<>>]
    /\ wr_resp = None
    /\ wr_log = <<>>
    /\ wr_acks = <<>>

WriteIdle ==
    /\ wr_path = "off"
    /\ wr_pc = "off"
    /\ wr_data = <<>>
    /\ wr_chunk = 1
    /\ wr_base = 0
    /\ wr_offset = 0
    /\ wr_idx = 0
    /\ wr_req = [offset |-> 0, part |-> <<>>]
    /\ wr_resp = None
    /\ wr_log = <<>>
    /\ wr_acks = <<>>

\* ------------------------------------------------------------------------
\* cmd_net_send: Open -> optional Write body -> optional Info -> optional
\* Read response -> Close
\* ------------------------------------------------------------------------
CMD_OPEN == 1
CMD_WRITE == 3
METHOD_GET == 1
METHOD_POST == 2
METHOD_PUT == 3

\* body_len_hint as the Open request carries it (net.py 573)
OpenHint == IF ns_method \in {METHOD_POST, METHOD_PUT} THEN ns_hint ELSE 0

\* device side: no response in time, an error status, or an Ok response
\* with the accepted and needs_body_write flags and a handle
OpenAnswers ==
    {None}
    \cup {Some([status |-> STATUS_IO_ERROR, accepted |-> FALSE,
                needs_body_write |-> FALSE, handle |-> 0])}
    \cup {Some([status |-> STATUS_OK, accepted |-> a, needs_body_write |-> n,
                handle |-> 1]) : a \in BOOLEAN, n \in BOOLEAN}

NsReturn(code) ==
    /\ ns_exit' = Some(code)
    /\ ns_pc' = "exit"

\* net.py 577-600
NsOpen ==
    /\ ns_pc = "open"
    /\ ns_cmds' = Append(ns_cmds, CMD_OPEN)
    /\ \E pkt \in OpenAnswers :
          /\ ns_open' = pkt
          /\ IF pkt = None THEN NsReturn(2) /\ UNCHANGED ns_handle
             ELSE IF ~status_ok(pkt) THEN NsReturn(1) /\ UNCHANGED ns_handle
             ELSE IF ~pkt[1].accepted THEN NsReturn(1) /\ UNCHANGED ns_handle
             ELSE /\ ns_handle' = Some(pkt[1].handle)
                  /\ ns_pc' = "body_check"
                  /\ UNCHANGED ns_exit
    /\ UNCHANGED <<ns_method, ns_hint, ns_show_headers, ns_read_response,
                   ns_out_refused, readVars, writeVars>>

\* as NsBodyCheck, but the body is uploaded whether or not the device asked
\* for it
NsBodyCheck_ignore_needs ==
    /\ ns_pc = "body_check"
    /\ IF ns_method \in {METHOD_POST, METHOD_PUT} /\ ns_hint > 0
       THEN /\ wr_pc' = "loop"
            /\ ns_pc' = "body"
            /\ UNCHANGED ns_exit
       ELSE /\ ns_pc' = "info"
            /\ UNCHANGED <<ns_exit, wr_pc>>
    /\ UNCHANGED <<ns_method, ns_hint, ns_show_headers, ns_read_response,
                   ns_out_refused, ns_open, ns_handle, ns_cmds, readVars,
                   wr_path, wr_data, wr_chunk, wr_base, wr_offset, wr_idx,
                   wr_req, wr_resp, wr_log, wr_acks>>

\* net.py 602-608: the body is uploaded for POST/PUT with body_len_hint > 0,
\* and only when the device asked for it
NsBodyCheck ==
    /\ ns_pc = "body_check"
    /\ IF ns_method \in {METHOD_POST, METHOD_PUT} /\ ns_hint > 0
       THEN IF ~ns_open[1].needs_body_write
            THEN NsReturn(1) /\ UNCHANGED wr_pc
            ELSE /\ wr_pc' = "loop"
                 /\ ns_pc' = "body"
                 /\ UNCHANGED ns_exit
       ELSE /\ ns_pc' = "info"
            /\ UNCHANGED <<ns_exit, wr_pc>>
    /\ UNCHANGED <<ns_method, ns_hint, ns_show_headers, ns_read_response,
                   ns_out_refused, ns_open, ns_handle, ns_cmds, readVars,
                   wr_path, wr_data, wr_chunk, wr_base, wr_offset, wr_idx,
                   wr_req, wr_resp, wr_log, wr_acks>>

\* net.py 609 and 621-632: the body loop ends, or returns 2 (no response)
\* or 1 (error status, zero written)
NsBodyEnd ==
    /\ ns_pc = "body"
    /\ wr_pc \in {"done", "failed"}
    /\ IF wr_pc = "done" THEN ns_pc' = "info" /\ UNCHANGED ns_exit
       ELSE NsReturn(IF wr_resp = None THEN 2 ELSE 1)
    /\ UNCHANGED <<ns_method, ns_hint, ns_show_headers, ns_read_response,
                   ns_out_refused, ns_open, ns_handle, ns_cmds, readVars,
                   writeVars>>

\* net.py 635-651: the Info response is printed when there is one
NsInfo ==
    /\ ns_pc = "info"
    /\ ns_cmds' = IF ns_show_headers THEN Append(ns_cmds, CMD_INFO) ELSE ns_cmds
    /\ ns_pc' = "read_check"
    /\ UNCHANGED <<ns_method, ns_hint, ns_show_headers, ns_read_response,
                   ns_out_refused, ns_open, ns_handle, ns_exit, readVars,
                   writeVars>>

\* net.py 653-664
NsReadCheck ==
    /\ ns_pc = "read_check"
    /\ IF ns_read_response
       THEN IF ns_out_refused
            THEN NsReturn(1) /\ UNCHANGED rd_pc
            ELSE /\ rd_pc' = "request"
                 /\ ns_pc' = "read"
                 /\ UNCHANGED ns_exit
       ELSE /\ ns_pc' = "close"
            /\ UNCHANGED <<ns_exit, rd_pc>>
    /\ UNCHANGED <<ns_method, ns_hint, ns_show_headers, ns_read_response,
                   ns_out_refused, ns_open, ns_handle, ns_cmds, writeVars,
                   rd_path, rd_offset, rd_req, rd_resp, rd_sink, rd_chunks,
                   rd_has_out, rd_n>>

\* net.py 676-703: the read loop ends at eof, or returns 2 (no response) or
\* 1 (error status, offset echo mismatch)
NsReadEnd ==
    /\ ns_pc = "read"
    /\ rd_pc \in {"done", "failed"}
    /\ IF rd_pc = "done" THEN ns_pc' = "close" /\ UNCHANGED ns_exit
       ELSE NsReturn(IF rd_resp = None THEN 2 ELSE 1)
    /\ UNCHANGED <<ns_method, ns_hint, ns_show_headers, ns_read_response,
                   ns_out_refused, ns_open, ns_handle, ns_cmds, readVars,
                   writeVars>>

\* net.py 710-721: Close, whatever its response, and return 0
NsClose ==
    /\ ns_pc = "close"
    /\ ns_cmds' = Append(ns_cmds, CMD_CLOSE)
    /\ NsReturn(0)
    /\ UNCHANGED <<ns_method, ns_hint, ns_show_headers, ns_read_response,
                   ns_out_refused, ns_open, ns_handle, readVars, writeVars>>

\* net.py 558-559: data, and body_len_hint = len(data) unless the user gave
\* one that is >= 0
NetSendInit ==
    /\ ns_pc = "open"
    /\ ns_method \in {METHOD_GET, METHOD_POST, METHOD_PUT}
    /\ wr_data \in {[i \in 1..n |-> i] : n \in 0..MaxBody}
    /\ ns_hint \in {Len(wr_data), 0, MaxBody}
    /\ ns_show_headers \in BOOLEAN
    /\ ns_read_response \in BOOLEAN
    /\ ns_out_refused \in (IF ns_read_response THEN BOOLEAN ELSE {FALSE})
    /\ ns_open = None
    /\ ns_handle = None
    /\ ns_cmds = <<>>
    /\ ns_exit = None
    /\ wr_path = "net_send"
    /\ wr_pc = "off"
    /\ wr_chunk \in 1..MaxBody
    /\ wr_base = 0
    /\ wr_offset = 0
    /\ wr_idx = 0
    /\ wr_req = [offset |-> 0, part |-> <<>>]
    /\ wr_resp = None
    /\ wr_log = <<>>
    /\ wr_acks = <<>>
    /\ rd_path = "net_send"
    /\ rd_pc = "off"
    /\ rd_offset = 0
    /\ rd_req = [offset |-> 0, max_bytes |-> 0]
    /\ rd_resp = None
    /\ rd_sink = <<>>
    /\ rd_chunks = <<>>
    /\ rd_has_out = TRUE
    /\ rd_n = 0

NetSendIdle ==
    /\ ns_pc = "off"
    /\ ns_method = METHOD_GET
    /\ ns_hint = 0
    /\ ns_show_headers = FALSE
    /\ ns_read_response = FALSE
    /\ ns_out_refused = FALSE
    /\ ns_open = None
    /\ ns_handle = None
    /\ ns_cmds = <<>>
    /\ ns_exit = None

\* ------------------------------------------------------------------------
\* cmd_net_get (net.py): Open(GET), optional Info polling, the read loop
\* (path "net_get" of the read loops above), Close
\* ------------------------------------------------------------------------
VARIABLES
    ng_pc,           \* "off" | "start" | "open" | "info" | "read" | "close" |
                     \* "exit"
    ng_show_headers, \* args.show_headers
    ng_info_retries, \* args.info_retries
    ng_info_i,       \* iterations of the Info loop begun so far
    ng_out_refused,  \* --out names an existing file and --force is not given
    ng_open,         \* what the send helper returned for Open
    ng_info,         \* what the send helper returned for the last Info
    ng_handle,       \* None, or <<handle>> once Open was accepted
    ng_cmds,         \* the commands of the requests sent, in order
    ng_exit          \* None, or <<the exit code>>

netGetVars == <<ng_pc, ng_show_headers, ng_info_retries, ng_info_i,
                ng_out_refused, ng_open, ng_info, ng_handle, ng_cmds, ng_exit>>

\* device side: the outcomes of one Info request: no response, an error
\* status, or an Ok response
InfoAnswers ==
    {None}
    \cup {Some([status |-> st]) :
            st \in {STATUS_OK, STATUS_NOT_READY, STATUS_IO_ERROR}}

NgReturn(code) ==
    /\ ng_exit' = Some(code)
    /\ ng_pc' = "exit"

\* net.py 336-342: --out is refused before the port is opened
NgStart ==
    /\ ng_pc = "start"
    /\ IF ng_out_refused THEN NgReturn(1)
       ELSE ng_pc' = "open" /\ UNCHANGED ng_exit
    /\ UNCHANGED <<ng_show_headers, ng_info_retries, ng_info_i, ng_out_refused,
                   ng_open, ng_info, ng_handle, ng_cmds, readVars>>

\* net.py 416-417: the read loop starts
NgEnterRead ==
    /\ ng_pc' = "read"
    /\ rd_pc' = "request"
    /\ UNCHANGED <<rd_path, rd_offset, rd_req, rd_resp, rd_sink, rd_chunks,
                   rd_has_out, rd_n>>

\* as NgOpen, but an Open response that is not accepted is taken as a handle
NgOpen_ignore_accepted ==
    /\ ng_pc = "open"
    /\ ng_cmds' = Append(ng_cmds, CMD_OPEN)
    /\ \E pkt \in OpenAnswers :
          /\ ng_open' = pkt
          /\ IF pkt = None THEN NgReturn(2) /\ UNCHANGED <<ng_handle, readVars>>
             ELSE IF ~status_ok(pkt)
             THEN NgReturn(1) /\ UNCHANGED <<ng_handle, readVars>>
             ELSE /\ ng_handle' = Some(pkt[1].handle)
                  /\ UNCHANGED ng_exit
                  /\ IF ng_show_headers
                     THEN ng_pc' = "info" /\ UNCHANGED readVars
                     ELSE NgEnterRead
    /\ UNCHANGED <<ng_show_headers, ng_info_retries, ng_info_i, ng_out_refused,
                   ng_info>>

\* net.py 353-384: Open; the command goes on only with an Ok, accepted response
NgOpen ==
    /\ ng_pc = "open"
    /\ ng_cmds' = Append(ng_cmds, CMD_OPEN)
    /\ \E pkt \in OpenAnswers :
          /\ ng_open' = pkt
          /\ IF pkt = None THEN NgReturn(2) /\ UNCHANGED <<ng_handle, readVars>>
             ELSE IF ~status_ok(pkt)
             THEN NgReturn(1) /\ UNCHANGED <<ng_handle, readVars>>
             ELSE IF ~pkt[1].accepted
             THEN NgReturn(1) /\ UNCHANGED <<ng_handle, readVars>>
             ELSE /\ ng_handle' = Some(pkt[1].handle)
                  /\ UNCHANGED ng_exit
                  /\ IF ng_show_headers
                     THEN ng_pc' = "info" /\ UNCHANGED readVars
                     ELSE NgEnterRead
    /\ UNCHANGED <<ng_show_headers, ng_info_retries, ng_info_i, ng_out_refused,
                   ng_info>>

\* net.py 386-411: one iteration of the Info loop.  No response, an error
\* status other than NotReady and an Ok response all leave the loop; NotReady
\* repeats it until max(1, info_retries) iterations were made.  The read loop
\* follows in every case.
NgInfo ==
    /\ ng_pc = "info"
    /\ ng_cmds' = Append(ng_cmds, CMD_INFO)
    /\ ng_info_i' = ng_info_i + 1
    /\ \E ipkt \in InfoAnswers :
          /\ ng_info' = ipkt
          /\ IF /\ ipkt # None
                /\ ipkt[1].status = STATUS_NOT_READY
                /\ ng_info_i' < Max(1, ng_info_retries)
             THEN ng_pc' = "info" /\ UNCHANGED readVars
             ELSE NgEnterRead
    /\ UNCHANGED <<ng_show_headers, ng_info_retries, ng_out_refused, ng_open,
                   ng_handle, ng_exit>>

\* net.py 419-428: a Read request of the loop goes out
NgReadRequest ==
    /\ ng_pc = "read"
    /\ RdRequest
    /\ ng_cmds' = Append(ng_cmds, CMD_READ)
    /\ UNCHANGED <<ng_pc, ng_show_headers, ng_info_retries, ng_info_i,
                   ng_out_refused, ng_open, ng_info, ng_handle, ng_exit>>

\* net.py 429-464: the read loop is left by `break` (eof, idle), or the command
\* returns 2 (no response) or 1 (error status, offset echo mismatch)
NgReadEnd ==
    /\ ng_pc = "read"
    /\ rd_pc \in {"done", "failed"}
    /\ IF rd_pc = "done" THEN ng_pc' = "close" /\ UNCHANGED ng_exit
       ELSE NgReturn(IF rd_resp = None THEN 2 ELSE 1)
    /\ UNCHANGED <<ng_show_headers, ng_info_retries, ng_info_i, ng_out_refused,
                   ng_open, ng_info, ng_handle, ng_cmds, readVars>>

\* net.py 467-481: Close, whatever its response, and return 0
NgClose ==
    /\ ng_pc = "close"
    /\ ng_cmds' = Append(ng_cmds, CMD_CLOSE)
    /\ NgReturn(0)
    /\ UNCHANGED <<ng_show_headers, ng_info_retries, ng_info_i, ng_out_refused,
                   ng_open, ng_info, ng_handle, readVars>>

NetGetInit ==
    /\ ng_pc = "start"
    /\ ng_show_headers \in BOOLEAN
    /\ ng_info_retries \in 0..MaxInfoRetries
    /\ ng_info_i = 0
    /\ ng_out_refused \in BOOLEAN
    /\ ng_open = None
    /\ ng_info = None
    /\ ng_handle = None
    /\ ng_cmds = <<>>
    /\ ng_exit = None
    /\ rd_path = "net_get"
    /\ rd_pc = "off"
    /\ rd_offset = 0
    /\ rd_req = [offset |-> 0, max_bytes |-> 0]
    /\ rd_resp = None
    /\ rd_sink = <<>>
    /\ rd_chunks = <<>>
    /\ rd_has_out = TRUE
    /\ rd_n = 0

NetGetIdle ==
    /\ ng_pc = "off"
    /\ ng_show_headers = FALSE
    /\ ng_info_retries = 0
    /\ ng_info_i = 0
    /\ ng_out_refused = FALSE
    /\ ng_open = None
    /\ ng_info = None
    /\ ng_handle = None
    /\ ng_cmds = <<>>
    /\ ng_exit = None

\* ------------------------------------------------------------------------
\* The TCP stream helpers (net_tcp.py): tcp_open, and calls of tcp_recv_some
\* and one call of tcp_send on a TcpStreamSession.  sess.read_offset is
\* rd_offset and sess.write_offset is wr_offset; the Read in flight is rd_req /
\* rd_resp and tcp_send is the write loop above with path "tcp_send".
\* An Info response is held as its status param and the lines of the header
\* block of parse_info_resp, a line as the name before the colon and the
\* text after it with the surrounding blanks stripped.
\* ------------------------------------------------------------------------
VARIABLES
    tc_pc,             \* "off" | "open" | "poll" (line 194) | "idle" (the
                       \* session is with the caller) | "send" | "raised"
    tc_wait_connected, \* wait_connected
    tc_late,           \* time.monotonic() >= deadline, as last observed
    tc_handle,         \* None, or <<sess.handle>>
    tc_info,           \* what _send_retry returned for the last Info
    tc_opened,         \* tcp_open returned the session
    tc_err,            \* None, or <<the message of the RuntimeError raised>>
    tc_got,            \* None, or <<what the last tcp_recv_some returned>>
    tc_returned        \* the bytes returned by tcp_recv_some since open

tcpVars == <<tc_pc, tc_wait_connected, tc_late, tc_handle, tc_info, tc_opened,
             tc_err, tc_got, tc_returned>>

HDR_CONNECTED == "X-FujiNet-Connected"
HDR_CONNECTING == "X-FujiNet-Connecting"

\* every line sets the flag it names, so the last such line decides
RECURSIVE ParseConnected(_, _, _)
ParseConnected(lines, connected, connecting) ==
    IF lines = <<>> THEN <<connected, connecting>>
    ELSE LET line == Head(lines)
         IN  IF line.name = HDR_CONNECTED
             THEN ParseConnected(Tail(lines), line.value = "1", connecting)
             ELSE IF line.name = HDR_CONNECTING
             THEN ParseConnected(Tail(lines), connected, line.value = "1")
             ELSE ParseConnected(Tail(lines), connected, connecting)

\* any header block counts as connected
_parse_tcp_connected_any_header(header_lines) ==
    <<header_lines # <<>>, FALSE>>

\* _parse_tcp_connected_from_info (net_tcp.py 131-147): (connected, connecting)
_parse_tcp_connected_from_info(header_lines) ==
    IF header_lines = <<>> THEN <<FALSE, FALSE>>
    ELSE ParseConnected(header_lines, FALSE, FALSE)

HeaderLines ==
    [name : {HDR_CONNECTED, HDR_CONNECTING, "Server"},
     value : {"0", "1", "true"}]

HeaderBlocks == UNION {[1..k -> HeaderLines] : k \in 0..MaxHeaderLines}

\* device side: the outcomes of one Info request through _send_retry: no
\* response, an error status, or an Ok response with a header block
TcpInfoAnswers ==
    {None}
    \cup {Some([status |-> st, headers |-> <<>>]) :
            st \in {STATUS_DEVICE_BUSY, STATUS_NOT_READY}}
    \cup {Some([status |-> STATUS_OK, headers |-> h]) : h \in HeaderBlocks}

TcpRaise(message) ==
    /\ tc_err' = Some(message)
    /\ tc_pc' = "raised"

\* tcp_open returns sess
TcpReturnSession ==
    /\ tc_opened' = TRUE
    /\ tc_pc' = "idle"
    /\ UNCHANGED tc_err

\* tcp_open, net_tcp.py 166-190
TcpOpen ==
    /\ tc_pc = "open"
    /\ \E pkt \in OpenAnswers :
          IF pkt = None
          THEN /\ TcpRaise("No response to Open")
               /\ UNCHANGED <<tc_handle, tc_opened>>
          ELSE IF ~status_ok(pkt)
          THEN /\ TcpRaise("Open failed")
               /\ UNCHANGED <<tc_handle, tc_opened>>
          ELSE IF ~pkt[1].accepted
          THEN /\ TcpRaise("Open not accepted")
               /\ UNCHANGED <<tc_handle, tc_opened>>
          ELSE /\ tc_handle' = Some(pkt[1].handle)
               /\ IF ~tc_wait_connected THEN TcpReturnSession
                  ELSE /\ tc_pc' = "poll"
                       /\ UNCHANGED <<tc_opened, tc_err>>
    /\ UNCHANGED <<tc_wait_connected, tc_late, tc_info, tc_got, tc_returned>>

\* tcp_open, net_tcp.py 193-225: the test of the deadline at the loop head and
\* one iteration of the Info poll
TcpPoll ==
    /\ tc_pc = "poll"
    /\ \E late \in {tc_late, TRUE} :
          /\ tc_late' = late
          /\ IF late
             THEN /\ TcpRaise("Timed out waiting for TCP connect")
                  /\ UNCHANGED <<tc_info, tc_opened>>
             ELSE \E ipkt \in TcpInfoAnswers :
                     /\ tc_info' = ipkt
                     /\ IF ipkt = None
                        THEN UNCHANGED <<tc_pc, tc_opened, tc_err>>
                        ELSE IF ~status_ok(ipkt)
                        THEN IF ipkt[1].status # STATUS_NOT_READY
                             THEN /\ TcpRaise("Info failed")
                                  /\ UNCHANGED tc_opened
                             ELSE UNCHANGED <<tc_pc, tc_opened, tc_err>>
                        ELSE IF _parse_tcp_connected_from_info(
                                    ipkt[1].headers)[1]
                        THEN TcpReturnSession
                        ELSE UNCHANGED <<tc_pc, tc_opened, tc_err>>
    /\ UNCHANGED <<tc_wait_connected, tc_handle, tc_got, tc_returned>>

\* tcp_recv_some, net_tcp.py 308-318: the Read request is built from
\* sess.read_offset and handed to the send helper
TcpRecvRequest ==
    /\ tc_pc = "idle"
    /\ RdRequest
    /\ UNCHANGED tcpVars

\* the cursor moves on by the size asked for, whatever came
RecvAdvance_by_request(offset, data) == offset + rd_req.max_bytes

\* `sess.read_offset += len(rr.data)` (net_tcp.py 332)
RecvAdvance(offset, data) == offset + Len(data)

\* tcp_recv_some, net_tcp.py 319-333
TcpRecvSome ==
    /\ tc_pc = "idle"
    /\ rd_pc = "handle"
    /\ IF rd_resp = None
       THEN /\ TcpRaise("No response to Read")
            /\ tc_got' = None
            /\ UNCHANGED <<rd_offset, rd_pc, tc_returned>>
       ELSE LET rr == rd_resp[1]
            IN  IF rr.status = STATUS_NOT_READY
                THEN /\ tc_got' = Some([data |-> <<>>, eof |-> FALSE])
                     /\ rd_pc' = "request"
                     /\ UNCHANGED <<rd_offset, tc_returned, tc_pc, tc_err>>
                ELSE IF rr.status # STATUS_OK
                THEN /\ TcpRaise("Read failed")
                     /\ tc_got' = None
                     /\ UNCHANGED <<rd_offset, rd_pc, tc_returned>>
                ELSE IF ~OffsetEchoOk(rr, rd_offset)
                THEN /\ TcpRaise("Offset echo mismatch")
                     /\ tc_got' = None
                     /\ UNCHANGED <<rd_offset, rd_pc, tc_returned>>
                ELSE /\ rd_offset' = RecvAdvance(rd_offset, rr.data)
                     /\ tc_got' = Some([data |-> rr.data, eof |-> rr.eof])
                     /\ tc_returned' = tc_returned \o rr.data
                     /\ rd_pc' = "request"
                     /\ UNCHANGED <<tc_pc, tc_err>>
    /\ UNCHANGED <<tc_wait_connected, tc_late, tc_handle, tc_info, tc_opened,
                   rd_path, rd_req, rd_resp, rd_sink, rd_chunks, rd_has_out,
                   rd_n, writeVars>>

\* the caller hands its data to tcp_send (net_tcp.py 240)
TcpSendCall ==
    /\ tc_pc = "idle"
    /\ rd_pc = "request"
    /\ wr_pc = "off"
    /\ wr_pc' = "loop"
    /\ tc_pc' = "send"
    /\ UNCHANGED <<tc_wait_connected, tc_late, tc_handle, tc_info, tc_opened,
                   tc_err, tc_got, tc_returned, readVars, wr_path, wr_data,
                   wr_chunk, wr_base, wr_offset, wr_idx, wr_req, wr_resp,
                   wr_log, wr_acks>>

\* tcp_send returns (net_tcp.py 266) or raises (255, 258, 262)
TcpSendEnd ==
    /\ tc_pc = "send"
    /\ wr_pc \in {"done", "failed"}
    /\ IF wr_pc = "done" THEN tc_pc' = "idle" /\ UNCHANGED tc_err
       ELSE TcpRaise("Write failed")
    /\ UNCHANGED <<tc_wait_connected, tc_late, tc_handle, tc_info, tc_opened,
                   tc_got, tc_returned, readVars, writeVars>>

\* tcp_open is called
TcpInit ==
    /\ tc_pc = "open"
    /\ tc_wait_connected \in BOOLEAN
    /\ tc_late = FALSE
    /\ tc_handle = None
    /\ tc_info = None
    /\ tc_opened = FALSE
    /\ tc_err = None
    /\ tc_got = None
    /\ tc_returned = <<>>

\* TcpStreamSession(handle) as tcp_open builds it (net_tcp.py 150-154, 187),
\* with the data the caller will hand to tcp_send
TcpSessionInit ==
    /\ tc_pc = "idle"
    /\ tc_wait_connected = FALSE
    /\ tc_late = FALSE
    /\ tc_handle = Some(1)
    /\ tc_info = None
    /\ tc_opened = TRUE
    /\ tc_err = None
    /\ tc_got = None
    /\ tc_returned = <<>>
    /\ wr_path = "tcp_send"
    /\ wr_pc = "off"
    /\ wr_data \in {[i \in 1..n |-> i] : n \in 0..MaxBody}
    /\ wr_chunk \in 1..MaxBody
    /\ wr_base = 0
    /\ wr_offset = 0
    /\ wr_idx = 0
    /\ wr_req = [offset |-> 0, part |-> <<>>]
    /\ wr_resp = None
    /\ wr_log = <<>>
    /\ wr_acks = <<>>
    /\ rd_path = "tcp_recv_some"
    /\ rd_pc = "request"
    /\ rd_offset = 0
    /\ rd_req = [offset |-> 0, max_bytes |-> 0]
    /\ rd_resp = None
    /\ rd_sink = <<>>
    /\ rd_chunks = <<>>
    /\ rd_has_out = TRUE
    /\ rd_n = 0

TcpIdle ==
    /\ tc_pc = "off"
    /\ tc_wait_connected = FALSE
    /\ tc_late = FALSE
    /\ tc_handle = None
    /\ tc_info = None
    /\ tc_opened = FALSE
    /\ tc_err = None
    /\ tc_got = None
    /\ tc_returned = <<>>

\* ------------------------------------------------------------------------
\* The response parsers of netproto.py, modemproto.py, diskproto.py,
\* fileproto.py and clock.py over byte_proto.py.  A parser's result is
\* [ok, err, val]: ok with the decoded value, or not ok with the message of
\* the ValueError raised.
\* ------------------------------------------------------------------------
NETPROTO_VERSION == 1
MODEMPROTO_VERSION == 1
DISKPROTO_VERSION == 1
FILEPROTO_VERSION == 1
CLOCKPROTO_VERSION == 1

PErr(message) == [ok |-> FALSE, err |-> message, val |-> <<>>]
POk(value) == [ok |-> TRUE, err |-> "", val |-> value]

\* bool(flags & (1 << k))
Bit(flags, k) == (flags \div (2 ^ k)) % 2 = 1

\* read_u8 .. read_u64le (byte_proto.py 22-52): [ok, err, val, off]
\* a little-endian value of `width` bytes at `off`: a number up to 16 bits,
\* above that its digits in base 65536, the least significant first
LEValue(b, off, width) ==
    IF width <= 2 THEN FieldValue(b, off, width)
    ELSE [k \in 1..(width \div 2) |-> FieldValue(b, off + 2 * (k - 1), 2)]

ReadLE(b, off, width, message) ==
    IF off + width > Len(b)
    THEN [ok |-> FALSE, err |-> message, val |-> 0, off |-> off]
    ELSE [ok |-> TRUE, err |-> "", val |-> LEValue(b, off, width),
          off |-> off + width]

read_u8(b, off) == ReadLE(b, off, 1, "read_u8 out of bounds")
read_u16le(b, off) == ReadLE(b, off, 2, "read_u16le out of bounds")
read_u32le(b, off) == ReadLE(b, off, 4, "read_u32le out of bounds")
read_u64le(b, off) == ReadLE(b, off, 8, "read_u64le out of bounds")

ReadWidth(b, off, width) ==
    IF width = 1 THEN read_u8(b, off)
    ELSE IF width = 2 THEN read_u16le(b, off)
    ELSE IF width = 4 THEN read_u32le(b, off)
    ELSE read_u64le(b, off)

\* a run of `v, off = read_...(payload, off)` statements, one per width; the
\* first read out of bounds raises: [ok, err, vals, off]
RECURSIVE ReadRun(_, _, _, _)
ReadRun(b, off, widths, vals) ==
    IF widths = <<>>
    THEN [ok |-> TRUE, err |-> "", vals |-> vals, off |-> off]
    ELSE LET r == ReadWidth(b, off, Head(widths))
         IN  IF ~r.ok
             THEN [ok |-> FALSE, err |-> r.err, vals |-> vals, off |-> off]
             ELSE ReadRun(b, r.off, Tail(widths), Append(vals, r.val))

\* any version byte passes
_check_version_any(payload, off) ==
    LET r == read_u8(payload, off)
    IN  IF ~r.ok THEN [ok |-> FALSE, err |-> r.err, off |-> off]
        ELSE [ok |-> TRUE, err |-> "", off |-> r.off]

\* _check_version (netproto.py 31-35; modemproto.py 26-30 and diskproto.py
\* 44-48 are the same code with their own version constant)
_check_version(payload, off) ==
    LET r == read_u8(payload, off)
    IN  IF ~r.ok THEN [ok |-> FALSE, err |-> r.err, off |-> off]
        ELSE IF r.val # NETPROTO_VERSION
        THEN [ok |-> FALSE, err |-> "bad version", off |-> off]
        ELSE [ok |-> TRUE, err |-> "", off |-> r.off]

\* the version check and the fixed fields that follow it: [ok, err, vals, off]
VersionAndRun(payload, widths) ==
    LET v == _check_version(payload, 0)
    IN  IF ~v.ok THEN [ok |-> FALSE, err |-> v.err, vals |-> <<>>, off |-> 0]
        ELSE ReadRun(payload, v.off, widths, <<>>)

\* every declared length is taken as in bounds
InBounds_unchecked(b, off, n) == TRUE

\* the negation of `if off + n > len(payload): raise`
InBounds(b, off, n) == off + n <= Len(b)

\* byte_proto.py 55-59: [ok, err, val, off]
read_lp_u16_bytes(b, off) ==
    LET n == read_u16le(b, off)
    IN  IF ~n.ok THEN n
        ELSE IF ~InBounds(b, n.off, n.val)
        THEN [ok |-> FALSE, err |-> "read_lp_u16_bytes out of bounds",
              val |-> 0, off |-> off]
        ELSE [ok |-> TRUE, err |-> "", val |-> Slice(b, n.off, n.val),
              off |-> n.off + n.val]

\* netproto.py 134-145
np_parse_open_resp(payload) ==
    LET r == VersionAndRun(payload, <<1, 2, 2>>)
    IN  IF ~r.ok THEN PErr(r.err)
        ELSE IF r.off # Len(payload)
        THEN PErr("trailing bytes in open response")
        ELSE POk([accepted |-> Bit(r.vals[1], 0),
                  needs_body_write |-> Bit(r.vals[1], 1),
                  handle |-> r.vals[3]])

\* netproto.py 159-185
np_parse_info_resp(payload) ==
    LET r == VersionAndRun(payload, <<1, 2, 2, 2, 8, 2>>)
    IN  IF ~r.ok THEN PErr(r.err)
        ELSE LET flags == r.vals[1]
                 hdr_len == r.vals[6]
                 hdr == Slice(payload, r.off, hdr_len)
             IN  IF ~InBounds(payload, r.off, hdr_len)
                 THEN PErr("header bytes out of bounds")
                 ELSE IF r.off + hdr_len # Len(payload)
                 THEN PErr("trailing bytes in info response")
                 ELSE POk([headers_included |-> Bit(flags, 0),
                           has_content_length |-> Bit(flags, 1),
                           has_http_status |-> Bit(flags, 2),
                           handle |-> r.vals[3],
                           http_status |-> IF Bit(flags, 2)
                                           THEN Some(r.vals[4]) ELSE None,
                           content_length |-> IF Bit(flags, 1)
                                              THEN Some(r.vals[5]) ELSE None,
                           header_bytes |-> hdr])

\* netproto.py 205-214
np_parse_write_resp(payload) ==
    LET r == VersionAndRun(payload, <<1, 2, 2, 4, 2>>)
    IN  IF ~r.ok THEN PErr(r.err)
        ELSE IF r.off # Len(payload)
        THEN PErr("trailing bytes in write response")
        ELSE POk([handle |-> r.vals[3], offset |-> r.vals[4],
                  written |-> r.vals[5]])

\* netproto.py 226-245
np_parse_read_resp(payload) ==
    LET r == VersionAndRun(payload, <<1, 2, 2, 4, 2>>)
    IN  IF ~r.ok THEN PErr(r.err)
        ELSE LET flags == r.vals[1]
                 data_len == r.vals[5]
                 data == Slice(payload, r.off, data_len)
             IN  IF ~InBounds(payload, r.off, data_len)
                 THEN PErr("read data out of bounds")
                 ELSE IF r.off + data_len # Len(payload)
                 THEN PErr("trailing bytes in read response")
                 ELSE POk([eof |-> Bit(flags, 0), truncated |-> Bit(flags, 1),
                           handle |-> r.vals[3], offset |-> r.vals[4],
                           data |-> data])

\* modemproto.py 84-100
mp_parse_write_resp(payload) ==
    LET r == VersionAndRun(payload, <<1, 2, 4, 2>>)
    IN  IF ~r.ok THEN PErr(r.err)
        ELSE IF r.off # Len(payload)
        THEN PErr("trailing bytes in write resp")
        ELSE POk([offset |-> r.vals[3], written |-> r.vals[4]])

\* modemproto.py 109-130
mp_parse_read_resp(payload) ==
    LET r == VersionAndRun(payload, <<1, 2, 4, 2>>)
    IN  IF ~r.ok THEN PErr(r.err)
        ELSE LET n == r.vals[4]
                 data == Slice(payload, r.off, n)
             IN  IF ~InBounds(payload, r.off, n)
                 THEN PErr("read resp out of bounds")
                 ELSE IF r.off + n # Len(payload)
                 THEN PErr("trailing bytes in read resp")
                 ELSE POk([offset |-> r.vals[3], data |-> data])

\* modemproto.py 151-180
mp_parse_status_resp(payload) ==
    LET r == VersionAndRun(payload, <<1, 2, 2, 4, 4, 4, 4>>)
    IN  IF ~r.ok THEN PErr(r.err)
        ELSE IF r.off # Len(payload)
        THEN PErr("trailing bytes in status resp")
        ELSE POk([flags |-> r.vals[1], listen_port |-> r.vals[3],
                  host_rx_avail |-> r.vals[4],
                  host_write_cursor |-> r.vals[5],
                  net_read_cursor |-> r.vals[6],
                  net_write_cursor |-> r.vals[7]])

\* diskproto.py 160-177
dp_parse_mount_resp(payload) ==
    LET r == VersionAndRun(payload, <<1, 2, 1, 1, 2, 4>>)
    IN  IF ~r.ok THEN PErr(r.err)
        ELSE POk([mounted |-> Bit(r.vals[1], 0), readonly |-> Bit(r.vals[1], 1),
                  slot |-> r.vals[3], img_type |-> r.vals[4],
                  sector_size |-> r.vals[5], sector_count |-> r.vals[6]])

\* diskproto.py 180-201
dp_parse_info_resp(payload) ==
    LET r == VersionAndRun(payload, <<1, 2, 1, 1, 2, 4, 1>>)
    IN  IF ~r.ok THEN PErr(r.err)
        ELSE POk([inserted |-> Bit(r.vals[1], 0), readonly |-> Bit(r.vals[1], 1),
                  dirty |-> Bit(r.vals[1], 2), changed |-> Bit(r.vals[1], 3),
                  slot |-> r.vals[3], img_type |-> r.vals[4],
                  sector_size |-> r.vals[5], sector_count |-> r.vals[6],
                  last_error |-> r.vals[7]])

\* diskproto.py 204-220
dp_parse_read_sector_resp(payload) ==
    LET r == VersionAndRun(payload, <<1, 2, 1, 4, 2>>)
    IN  IF ~r.ok THEN PErr(r.err)
        ELSE LET data_len == r.vals[5]
                 data == Slice(payload, r.off, data_len)
             IN  IF ~InBounds(payload, r.off, data_len)
                 THEN PErr("read sector data out of bounds")
                 ELSE POk([truncated |-> Bit(r.vals[1], 0), slot |-> r.vals[3],
                           lba |-> r.vals[4], data |-> data])

\* diskproto.py 223-231
dp_parse_write_sector_resp(payload) ==
    LET r == VersionAndRun(payload, <<1, 2, 1, 4, 2>>)
    IN  IF ~r.ok THEN PErr(r.err)
        ELSE POk([slot |-> r.vals[3], lba |-> r.vals[4],
                  written_len |-> r.vals[5]])

\* fileproto.py 45-64
fp_parse_stat(payload) ==
    IF Len(payload) < 1 + 1 + 2 + 8 + 8 THEN PErr("stat response too short")
    ELSE IF payload[1] # FILEPROTO_VERSION THEN PErr("bad version")
    ELSE POk([exists |-> Bit(payload[2], 1), is_dir |-> Bit(payload[2], 0),
              size_bytes |-> LEValue(payload, 4, 8),
              mtime_unix |-> LEValue(payload, 12, 8)])

\* fileproto.py 111-134: the loop over the entries: [ok, err, entries]
RECURSIVE ListEntries(_, _, _, _)
ListEntries(payload, off, count, entries) ==
    IF count = 0 THEN [ok |-> TRUE, err |-> "", entries |-> entries]
    ELSE IF off + 2 > Len(payload)
    THEN [ok |-> FALSE, err |-> "truncated entry header", entries |-> entries]
    ELSE LET eflags == payload[off + 1]
             name_len == payload[off + 2]
             at == off + 2
         IN  IF at + name_len + 8 + 8 > Len(payload)
             THEN [ok |-> FALSE, err |-> "truncated entry body",
                   entries |-> entries]
             ELSE ListEntries(payload, at + name_len + 16, count - 1,
                     Append(entries,
                        [name |-> Slice(payload, at, name_len),
                         is_dir |-> Bit(eflags, 0),
                         size_bytes |-> LEValue(payload, at + name_len, 8),
                         mtime_unix |->
                             LEValue(payload, at + name_len + 8, 8)]))

\* fileproto.py 89-136
fp_parse_listdir(payload) ==
    IF Len(payload) < 1 + 1 + 2 + 2 THEN PErr("listdir response too short")
    ELSE IF payload[1] # FILEPROTO_VERSION THEN PErr("bad version")
    ELSE LET count == FieldValue(payload, 4, 2)
             r == ListEntries(payload, 6, count, <<>>)
         IN  IF ~r.ok THEN PErr(r.err)
             ELSE POk([more |-> Bit(payload[2], 0), entries |-> r.entries])

\* fileproto.py 156-181
fp_parse_read(payload) ==
    IF Len(payload) < 1 + 1 + 2 + 4 + 2 THEN PErr("read response too short")
    ELSE IF payload[1] # FILEPROTO_VERSION THEN PErr("bad version")
    ELSE LET data_len == FieldValue(payload, 8, 2)
             data == Slice(payload, 10, data_len)
         IN  IF Len(data) # data_len THEN PErr("truncated read data")
             ELSE POk([offset |-> LEValue(payload, 4, 4),
                       eof |-> Bit(payload[2], 0),
                       truncated |-> Bit(payload[2], 1), data |-> data])

\* fileproto.py 199-214
fp_parse_write(payload) ==
    IF Len(payload) < 1 + 1 + 2 + 4 + 2 THEN PErr("write response too short")
    ELSE IF payload[1] # FILEPROTO_VERSION THEN PErr("bad version")
    ELSE POk([offset |-> LEValue(payload, 4, 4),
              written_len |-> FieldValue(payload, 8, 2)])

\* the eight bytes are taken from the start of the payload
_parse_clock_time_resp_header(payload) ==
    IF Len(payload) < 1 + 1 + 2 + 8 THEN PErr("clock response too short")
    ELSE IF payload[1] # CLOCKPROTO_VERSION
    THEN PErr("clock version mismatch")
    ELSE POk(read_u64le(payload, 0).val)

\* clock.py 94-104
_parse_clock_time_resp(payload) ==
    IF Len(payload) < 1 + 1 + 2 + 8 THEN PErr("clock response too short")
    ELSE IF payload[1] # CLOCKPROTO_VERSION
    THEN PErr("clock version mismatch")
    ELSE POk(read_u64le(payload, 4).val)

\* clock.py 107-119
_parse_clock_format_resp(payload) ==
    IF Len(payload) < 2 THEN PErr("clock format response too short")
    ELSE IF payload[1] # CLOCKPROTO_VERSION
    THEN PErr("clock version mismatch")
    ELSE POk([format_code |-> payload[2],
              data |-> SubSeq(payload, 3, Len(payload))])

\* bytes.rstrip(b"\x00")
RECURSIVE RStripNul(_)
RStripNul(b) ==
    IF b # <<>> /\ b[Len(b)] = 0 THEN RStripNul(SubSeq(b, 1, Len(b) - 1))
    ELSE b

\* clock.py 122-135
_parse_clock_timezone_resp(payload) ==
    IF Len(payload) < 2 THEN PErr("clock timezone response too short")
    ELSE IF payload[1] # CLOCKPROTO_VERSION
    THEN PErr("clock version mismatch")
    ELSE LET tz_len == payload[2]
         IN  IF Len(payload) < 2 + tz_len
             THEN PErr("clock timezone response truncated")
             ELSE POk(RStripNul(Slice(payload, 2, tz_len)))

Parsers ==
    {"np.parse_open_resp", "np.parse_info_resp", "np.parse_write_resp",
     "np.parse_read_resp", "mp.parse_write_resp", "mp.parse_read_resp",
     "mp.parse_status_resp", "dp.parse_mount_resp", "dp.parse_info_resp",
     "dp.parse_read_sector_resp", "dp.parse_write_sector_resp",
     "fp.parse_stat", "fp.parse_listdir", "fp.parse_read", "fp.parse_write",
     "_parse_clock_time_resp", "_parse_clock_format_resp",
     "_parse_clock_timezone_resp"}

\* the length-prefixed reader of byte_proto.py, called past a version byte
Helpers == {"read_lp_u16_bytes"}

\* the call parser(payload); the helper's result in the shape of a parser's
ParseResp(parser, payload) ==
    CASE parser = "np.parse_open_resp" -> np_parse_open_resp(payload)
      [] parser = "read_lp_u16_bytes" ->
            LET r == read_lp_u16_bytes(payload, 1)
            IN  IF r.ok THEN POk([data |-> r.val]) ELSE PErr(r.err)
      [] parser = "np.parse_info_resp" -> np_parse_info_resp(payload)
      [] parser = "np.parse_write_resp" -> np_parse_write_resp(payload)
      [] parser = "np.parse_read_resp" -> np_parse_read_resp(payload)
      [] parser = "mp.parse_write_resp" -> mp_parse_write_resp(payload)
      [] parser = "mp.parse_read_resp" -> mp_parse_read_resp(payload)
      [] parser = "mp.parse_status_resp" -> mp_parse_status_resp(payload)
      [] parser = "dp.parse_mount_resp" -> dp_parse_mount_resp(payload)
      [] parser = "dp.parse_info_resp" -> dp_parse_info_resp(payload)
      [] parser = "dp.parse_read_sector_resp" ->
            dp_parse_read_sector_resp(payload)
      [] parser = "dp.parse_write_sector_resp" ->
            dp_parse_write_sector_resp(payload)
      [] parser = "fp.parse_stat" -> fp_parse_stat(payload)
      [] parser = "fp.parse_listdir" -> fp_parse_listdir(payload)
      [] parser = "fp.parse_read" -> fp_parse_read(payload)
      [] parser = "fp.parse_write" -> fp_parse_write(payload)
      [] parser = "_parse_clock_time_resp" -> _parse_clock_time_resp(payload)
      [] parser = "_parse_clock_format_resp" ->
            _parse_clock_format_resp(payload)
      [] parser = "_parse_clock_timezone_resp" ->
            _parse_clock_timezone_resp(payload)

\* the wire layout of each response after the version byte: the number of
\* bytes of its fixed fields, and what follows them: nothing ("none"), a u16
\* length and that many bytes ("u16"), a u8 length and that many bytes ("u8"),
\* bytes to the end ("rest"), or a u16 count and that many directory entries
\* ("list")
Layout(parser) ==
    CASE parser = "np.parse_open_resp" -> [fixed |-> 5, var |-> "none"]
      [] parser = "read_lp_u16_bytes" -> [fixed |-> 0, var |-> "u16"]
      [] parser = "np.parse_info_resp" -> [fixed |-> 15, var |-> "u16"]
      [] parser = "np.parse_write_resp" -> [fixed |-> 11, var |-> "none"]
      [] parser = "np.parse_read_resp" -> [fixed |-> 9, var |-> "u16"]
      [] parser = "mp.parse_write_resp" -> [fixed |-> 9, var |-> "none"]
      [] parser = "mp.parse_read_resp" -> [fixed |-> 7, var |-> "u16"]
      [] parser = "mp.parse_status_resp" -> [fixed |-> 21, var |-> "none"]
      [] parser = "dp.parse_mount_resp" -> [fixed |-> 11, var |-> "none"]
      [] parser = "dp.parse_info_resp" -> [fixed |-> 12, var |-> "none"]
      [] parser = "dp.parse_read_sector_resp" -> [fixed |-> 8, var |-> "u16"]
      [] parser = "dp.parse_write_sector_resp" ->
            [fixed |-> 10, var |-> "none"]
      [] parser = "fp.parse_stat" -> [fixed |-> 19, var |-> "none"]
      [] parser = "fp.parse_listdir" -> [fixed |-> 3, var |-> "list"]
      [] parser = "fp.parse_read" -> [fixed |-> 7, var |-> "u16"]
      [] parser = "fp.parse_write" -> [fixed |-> 9, var |-> "none"]
      [] parser = "_parse_clock_time_resp" -> [fixed |-> 11, var |-> "none"]
      [] parser = "_parse_clock_format_resp" -> [fixed |-> 1, var |-> "rest"]
      [] parser = "_parse_clock_timezone_resp" -> [fixed |-> 0, var |-> "u8"]

VersionSample == {0, 1, 2, 255}
FlagSample == {0, 255}

\* the fixed fields: the flags byte, then bytes that name their position
FixedBytes(k, flags) == [i \in 1..k |-> IF i = 1 THEN flags ELSE i]

\* m bytes of field data, none of them 0
FieldBytes(m) == [j \in 1..m |-> 64 + j]

\* one directory entry that declares a name of n bytes and holds m
DirEntryBytes(n, m) ==
    <<1, n>> \o FieldBytes(m) \o [j \in 1..16 |-> 128 + j]

\* e such entries
RECURSIVE DirEntries(_, _, _)
DirEntries(e, n, m) ==
    IF e = 0 THEN <<>> ELSE DirEntryBytes(n, m) \o DirEntries(e - 1, n, m)

\* the variable parts: a declared length n with m bytes behind it (a time
\* zone name may be padded with a NUL)
VarParts(kind) ==
    IF kind = "u16"
    THEN {<<n, 0>> \o FieldBytes(m) : n \in 0..MaxField, m \in 0..MaxField}
    ELSE IF kind = "u8"
    THEN {<<n>> \o FieldBytes(m) \o pad :
            n \in 0..MaxField, m \in 0..MaxField, pad \in {<<>>, <<0>>}}
    ELSE IF kind = "list"
    THEN {<<c, 0>> \o DirEntries(e, n, m) :
            c \in 0..(MaxEntries + 1), e \in 0..MaxEntries,
            n \in 0..MaxField, m \in 0..MaxField}
    ELSE {FieldBytes(m) : m \in 0..MaxField}

\* device side: the payloads handed to a parser: a version byte, the fixed
\* fields and a variable part, whole or cut short
RespPayloads(parser) ==
    LET fulls == {<<ver>> \o FixedBytes(Layout(parser).fixed, f) \o v :
                    ver \in VersionSample, f \in FlagSample,
                    v \in VarParts(Layout(parser).var)}
    IN  UNION {{SubSeq(full, 1, k) : k \in 0..Len(full)} : full \in fulls}

VARIABLES
    pr_parser,  \* the parse function called
    pr_payload, \* its argument
    pr_phase,   \* "off" | "new" | "called"
    pr_res      \* its result

protoVars == <<pr_parser, pr_payload, pr_phase, pr_res>>

ProtoInit ==
    /\ pr_parser \in Parsers \cup Helpers
    /\ pr_payload \in RespPayloads(pr_parser)
    /\ pr_phase = "new"
    /\ pr_res = PErr("")

ProtoIdle ==
    /\ pr_parser = "np.parse_open_resp"
    /\ pr_payload = <<>>
    /\ pr_phase = "off"
    /\ pr_res = PErr("")

ProtoCall ==
    /\ pr_phase = "new"
    /\ pr_res' = ParseResp(pr_parser, pr_payload)
    /\ pr_phase' = "called"
    /\ UNCHANGED <<pr_parser, pr_payload>>

\* ------------------------------------------------------------------------
\* bbc_dfs.py: the Acorn DFS 0.90 catalogue
\* ------------------------------------------------------------------------
\* Python's x >> k, x << k, x & y and x | y on non-negative integers
Shr(x, k) == x \div (2 ^ k)
Shl(x, k) == x * (2 ^ k)

RECURSIVE BitAnd(_, _)
BitAnd(x, y) ==
    IF x = 0 \/ y = 0 THEN 0
    ELSE (IF x % 2 = 1 /\ y % 2 = 1 THEN 1 ELSE 0)
         + 2 * BitAnd(x \div 2, y \div 2)

RECURSIVE BitOr(_, _)
BitOr(x, y) ==
    IF x = 0 THEN y
    ELSE IF y = 0 THEN x
    ELSE (IF x % 2 = 1 \/ y % 2 = 1 THEN 1 ELSE 0)
         + 2 * BitOr(x \div 2, y \div 2)

\* the characters str.strip() removes, as Latin-1 codes
Whitespace == {9, 10, 11, 12, 13, 28, 29, 30, 31, 32, 133, 160}

\* str.rstrip(chars), str.lstrip(chars)
RECURSIVE RStripSet(_, _)
RStripSet(t, chars) ==
    IF t # <<>> /\ t[Len(t)] \in chars
    THEN RStripSet(SubSeq(t, 1, Len(t) - 1), chars)
    ELSE t

RECURSIVE LStripSet(_, _)
LStripSet(t, chars) ==
    IF t # <<>> /\ Head(t) \in chars THEN LStripSet(Tail(t), chars) ELSE t

\* str.strip()
Strip(t) == LStripSet(RStripSet(t, Whitespace), Whitespace)

\* bbc_dfs.py 34-45
_decode_title(sector0, sector1) ==
    LET t == Strip(RStripSet(Slice(sector0, 0, 8) \o Slice(sector1, 0, 4),
                             {0, 32}))
        t2 == Strip(RStripSet(Slice(sector1, 0, 8), {0, 32}))
    IN  IF t # <<>> THEN t ELSE t2

\* bbc_dfs.py 48-50
_bcd_to_int(x) == BitAnd(Shr(x, 4), 15) * 10 + BitAnd(x, 15)

\* the two bits of b14 taken from bit 0 whatever the field
Top2_unshifted(b14, shift) == BitAnd(b14, 3)

\* (b14 >> shift) & 0x03 (bbc_dfs.py 124-127)
Top2(b14, shift) == BitAnd(Shr(b14, shift), 3)

\* bbc_dfs.py 93-139: the loop over the entries from entry i on; s0 and s1
\* are indexed from 0 in the source, from 1 here
RECURSIVE DfsEntries(_, _, _, _, _)
DfsEntries(sector0, sector1, i, file_count, entries) ==
    LET n0 == 8 + i * 8
        n1 == 8 + i * 8
    IN  IF i >= file_count THEN entries
        ELSE IF n0 + 8 > 256 \/ n1 + 8 > 256 THEN entries
        ELSE LET raw_name == Slice(sector0, n0, 7)
                 dir_attr == sector0[n0 + 7 + 1]
                 name == Strip(RStripSet(RStripSet(raw_name, {32}), {0}))
                 b8 == sector1[n1 + 0 + 1]
                 b9 == sector1[n1 + 1 + 1]
                 b10 == sector1[n1 + 2 + 1]
                 b11 == sector1[n1 + 3 + 1]
                 b12 == sector1[n1 + 4 + 1]
                 b13 == sector1[n1 + 5 + 1]
                 b14 == sector1[n1 + 6 + 1]
                 b15 == sector1[n1 + 7 + 1]
                 entry ==
                    [directory |-> IF BitAnd(dir_attr, 127) = 0 THEN 36
                                   ELSE BitAnd(dir_attr, 127),
                     name |-> name,
                     locked |-> BitAnd(dir_attr, 128) # 0,
                     load_addr |->
                        BitOr(BitOr(b8, Shl(b9, 8)), Shl(Top2(b14, 2), 16)),
                     exec_addr |->
                        BitOr(BitOr(b10, Shl(b11, 8)), Shl(Top2(b14, 6), 16)),
                     length |->
                        BitOr(BitOr(b12, Shl(b13, 8)), Shl(Top2(b14, 4), 16)),
                     start_sector |-> BitOr(b15, Shl(BitAnd(b14, 3), 8))]
             IN  IF name = <<>>
                 THEN DfsEntries(sector0, sector1, i + 1, file_count, entries)
                 ELSE DfsEntries(sector0, sector1, i + 1, file_count,
                                 Append(entries, entry))

\* bbc_dfs.py 53-143: [ok, desc, entries]
parse_dfs_catalogue_090(sector0, sector1) ==
    IF Len(sector0) # 256 \/ Len(sector1) # 256
    THEN [ok |-> FALSE, desc |-> <<>>, entries |-> <<>>]
    ELSE LET file_off == sector1[5 + 1]
             file_count == Min(file_off \div 8, 31)
         IN  [ok |-> TRUE,
              desc |-> [title |-> _decode_title(sector0, sector1),
                        cycle_bcd |-> _bcd_to_int(sector1[4 + 1]),
                        file_count |-> file_count,
                        boot_option |-> BitAnd(Shr(sector1[6 + 1], 4), 3),
                        disc_sectors |->
                            BitOr(sector1[7 + 1],
                                  Shl(BitAnd(sector1[6 + 1], 3), 8))],
              entries |-> DfsEntries(sector0, sector1, 0, file_count, <<>>)]

\* the catalogue bytes of one file per the DFS 0.90 rules: the low 16 bits
\* of load, exec and length, the byte of top bits, the low byte of start
PackDescriptor(load, exec, length, start) ==
    <<load % 256, (load \div 256) % 256,
      exec % 256, (exec \div 256) % 256,
      length % 256, (length \div 256) % 256,
      ((start \div 256) % 4) + 4 * ((load \div 65536) % 4)
        + 16 * ((length \div 65536) % 4) + 64 * ((exec \div 65536) % 4),
      start % 256>>

\* the values packed: 18-bit load, exec and length, 10-bit start
LoadWords == {0, 17767}
ExecWords == {4660, 65535}
LengthWords == {0, 43981}
StartBytes == {170, 255}
Top2Values == 0..3

DfsNames == {<<72, 69, 76, 76, 79, 32, 32>>, <<32, 32, 32, 32, 32, 32, 32>>}

\* a catalogue of MaxIndex + 1 files: file `index` has the given name and
\* values, the others are named X and have every descriptor bit set
DfsSector0(index, name) ==
    [k \in 1..256 |->
        LET at == k - 1
            i == (at \div 8) - 1
        IN  IF at < 8 \/ i > MaxIndex THEN 0
            ELSE IF at % 8 = 7 THEN 36
            ELSE IF i = index THEN name[(at % 8) + 1]
            ELSE IF at % 8 = 0 THEN 88 ELSE 32]

DfsSector1(index, packed) ==
    [k \in 1..256 |->
        LET at == k - 1
            i == (at \div 8) - 1
        IN  IF at = 5 THEN 8 * (MaxIndex + 1)
            ELSE IF at < 8 \/ i > MaxIndex THEN 0
            ELSE IF i = index THEN packed[(at % 8) + 1]
            ELSE 255]

VARIABLES
    dfs_vals,    \* the values packed: [load, exec, length, start]
    dfs_index,   \* the entry that holds them
    dfs_sector0, \* the two catalogue sectors
    dfs_sector1,
    dfs_phase,   \* "off" | "new" | "parsed"
    dfs_out      \* the result of parse_dfs_catalogue_090

dfsVars ==
    <<dfs_vals, dfs_index, dfs_sector0, dfs_sector1, dfs_phase, dfs_out>>

DfsNoResult == [ok |-> FALSE, desc |-> <<>>, entries |-> <<>>]

DfsInit ==
    /\ dfs_vals \in {[load |-> lt * 65536 + lw, exec |-> et * 65536 + ew,
                      length |-> nt * 65536 + nw, start |-> st * 256 + sb] :
                        lt \in Top2Values, lw \in LoadWords,
                        et \in Top2Values, ew \in ExecWords,
                        nt \in Top2Values, nw \in LengthWords,
                        st \in Top2Values, sb \in StartBytes}
    /\ dfs_index \in 0..MaxIndex
    /\ \E name \in DfsNames :
          dfs_sector0 = DfsSector0(dfs_index, name)
    /\ dfs_sector1 = DfsSector1(dfs_index,
                        PackDescriptor(dfs_vals.load, dfs_vals.exec,
                                       dfs_vals.length, dfs_vals.start))
    /\ dfs_phase = "new"
    /\ dfs_out = DfsNoResult

DfsIdle ==
    /\ dfs_vals = [load |-> 0, exec |-> 0, length |-> 0, start |-> 0]
    /\ dfs_index = 0
    /\ dfs_sector0 = <<>>
    /\ dfs_sector1 = <<>>
    /\ dfs_phase = "off"
    /\ dfs_out = DfsNoResult

DfsParse ==
    /\ dfs_phase = "new"
    /\ dfs_out' = parse_dfs_catalogue_090(dfs_sector0, dfs_sector1)
    /\ dfs_phase' = "parsed"
    /\ UNCHANGED <<dfs_vals, dfs_index, dfs_sector0, dfs_sector1>>

\* ------------------------------------------------------------------------
\* bbc.py: cmd_dfs_read
\* ------------------------------------------------------------------------
\* the largest lba build_read_sector_req accepts (0xFFFFFFFF in diskproto.py
\* 103), scaled to the model: every file of the model that is read in
\* sectors of one byte or more ends below it
LBA_LIMIT == MaxStart + MaxFileLen

\* device side: the data of an Ok ReadSector response for sector lba
SectorData(lba, n) == [k \in 1..n |-> 16 * lba + k]

\* device side: the outcomes of one ReadSector request: no response, an error
\* status, or Ok with 0..MaxSectorData bytes
SectorAnswers(lba) ==
    {None, Some([status |-> STATUS_IO_ERROR, data |-> <<>>])}
        \cup {Some([status |-> STATUS_OK, data |-> SectorData(lba, n)]) :
                n \in 0..MaxSectorData}

VARIABLE
    dfs_read  \* cmd_dfs_read: [ent, remaining, lba, out, reqs, resp, pc]
              \* reqs: the lbas requested; resp: None, or <<pkt>> once the
              \* request is answered (pkt = None: no response)
              \* pc: "off" | "loop" | "wait" | "done" | "raised"

\* bbc.py 97-98: after the catalogue lookup
DfsReadInit ==
    \E length \in 0..MaxFileLen, start \in 0..MaxStart :
        dfs_read = [ent |-> [length |-> length, start_sector |-> start],
                    remaining |-> length, lba |-> start, out |-> <<>>,
                    reqs |-> <<>>, resp |-> None, pc |-> "loop"]

DfsReadIdle ==
    dfs_read = [ent |-> [length |-> 0, start_sector |-> 0], remaining |-> 0,
                lba |-> 0, out |-> <<>>, reqs |-> <<>>, resp |-> None,
                pc |-> "off"]

\* bbc.py 106-107, 36-38: the loop test; build_read_sector_req raises when the
\* lba does not fit (diskproto.py 103-104), else the request is sent
DfsReadLoop ==
    /\ dfs_read.pc = "loop"
    /\ dfs_read' =
          IF ~(dfs_read.remaining > 0) THEN [dfs_read EXCEPT !.pc = "done"]
          ELSE IF ~(0 <= dfs_read.lba /\ dfs_read.lba <= LBA_LIMIT)
          THEN [dfs_read EXCEPT !.pc = "raised"]
          ELSE [dfs_read EXCEPT !.pc = "wait",
                                !.reqs = Append(@, dfs_read.lba)]

\* device side: the request is answered
DeviceSectorAnswer ==
    /\ dfs_read.pc = "wait"
    /\ dfs_read.resp = None
    /\ \E a \in SectorAnswers(dfs_read.lba) :
          dfs_read' = [dfs_read EXCEPT !.resp = Some(a)]

\* take = min(remaining, len(sec)) (bbc.py 108)
DfsTake(remaining, sec) == Min(remaining, Len(sec))

\* bbc.py 39-45, 107-114: _read_sector returns or raises; the chunk is
\* written and the loop moves to the next sector
DfsReadSector ==
    /\ dfs_read.pc = "wait"
    /\ dfs_read.resp # None
    /\ LET pkt == dfs_read.resp[1]
       IN  dfs_read' =
              IF pkt = None \/ pkt[1].status # STATUS_OK
              THEN [dfs_read EXCEPT !.pc = "raised", !.resp = None]
              ELSE LET sec == pkt[1].data
                       take == DfsTake(dfs_read.remaining, sec)
                   IN  [dfs_read EXCEPT
                           !.out = @ \o SubSeq(sec, 1, take),
                           !.remaining = @ - take,
                           !.lba = @ + 1,
                           !.resp = None,
                           !.pc = "loop"]

\* ------------------------------------------------------------------------
\* clock.py: cmd_clock_get
\* ------------------------------------------------------------------------
\* device side: clock values, as four digits in base 65536 (least
\* significant first)
ClockDigits == {0, 258, 65535}
ClockValues == [1..4 -> ClockDigits]

\* u64le (byte_proto.py 19-20) on such a value: byte i is (x >> 8i) & 0xFF
u64le(x) ==
    [i \in 1..8 |->
        IF (i - 1) % 2 = 0 THEN x[((i - 1) \div 2) + 1] % 256
        ELSE x[((i - 1) \div 2) + 1] \div 256]

\* device side: the payloads of a Clock Get response that carries ts: the
\* well-formed one, one of another version, and every shorter prefix
ClockTimePayloads(ts) ==
    LET full(ver, flags) == <<ver, flags, 0, 0>> \o u64le(ts)
    IN  {full(1, 0), full(1, 255), full(2, 0)}
            \cup {SubSeq(full(1, 0), 1, k) : k \in 0..11}

VARIABLE
    clock_get  \* cmd_clock_get: [pc, device_ts, resp, shown, exit]
               \* pc: "off" | "send" | "wait" | "answered" | "done"; resp: the packet,
               \* None if none came; shown: what "device unix:" printed

ClockGetInit ==
    clock_get = [pc |-> "send", device_ts |-> [i \in 1..4 |-> 0],
                 resp |-> None, shown |-> None, exit |-> None]

ClockGetIdle ==
    clock_get = [pc |-> "off", device_ts |-> [i \in 1..4 |-> 0],
                 resp |-> None, shown |-> None, exit |-> None]

\* clock.py 143-157: the request is sent
ClockGetSend ==
    /\ clock_get.pc = "send"
    /\ clock_get' = [clock_get EXCEPT !.pc = "wait"]

\* device side: no response in time, an error status, or Ok with a payload
\* that carries the device's clock value
DeviceClockAnswer ==
    /\ clock_get.pc = "wait"
    /\ \E ts \in ClockValues :
       \E a \in {None, Some([status |-> STATUS_NOT_READY, payload |-> <<>>])}
                  \cup {Some([status |-> STATUS_OK, payload |-> pl]) :
                          pl \in ClockTimePayloads(ts)} :
          clock_get' = [clock_get EXCEPT !.pc = "answered",
                                         !.device_ts = ts, !.resp = a]

\* clock.py 158-173: the response is handled and the command returns
ClockGetEnd ==
    /\ clock_get.pc = "answered"
    /\ LET pkt == clock_get.resp
           r == _parse_clock_time_resp(pkt[1].payload)
       IN  clock_get' =
              IF pkt = None
              THEN [clock_get EXCEPT !.pc = "done", !.exit = Some(2)]
              ELSE IF ~status_ok(pkt)
              THEN [clock_get EXCEPT !.pc = "done", !.exit = Some(1)]
              ELSE IF ~r.ok
              THEN [clock_get EXCEPT !.pc = "done", !.exit = Some(1)]
              ELSE [clock_get EXCEPT !.pc = "done", !.shown = Some(r.val),
                                     !.exit = Some(0)]

\* ------------------------------------------------------------------------
\* fujibus.py: the module-level send_command and _read_one_slip_frame
\* ------------------------------------------------------------------------
FILE_DEVICE_ID == 254
CMD_LISTDIR == 2

\* device side: the n-th emission: a response whose payload is n, or noise
LegacyTraffic(n) ==
    {DeviceResponse(FILE_DEVICE_ID, CMD_LISTDIR, 0, <<n>>)} \cup Garbage

VARIABLE
    legacy  \* send_command on one serial.Serial:
            \* [pc, late, wire, nemit, ncalls, ser_stash, buf, in_frame, ret,
            \*  starved]
            \* pc: "off" | "idle" | "outer" | "read"; late: the deadline of
            \* the call has been seen passed; wire: bytes waiting in the
            \* port; ser_stash: ser._fujibus_rx_stash; buf, in_frame: locals
            \* of _read_one_slip_frame; ret: what the last call returned;
            \* starved: during the call, and before its deadline, a read
            \* returned nothing while buf held a complete parseable frame

LegacyInit ==
    legacy = [pc |-> "idle", late |-> FALSE, wire |-> <<>>, nemit |-> 0,
              ncalls |-> 0, ser_stash |-> <<>>, buf |-> <<>>,
              in_frame |-> FALSE, ret |-> None, starved |-> FALSE]

LegacyIdle ==
    legacy = [pc |-> "off", late |-> FALSE, wire |-> <<>>, nemit |-> 0,
              ncalls |-> 0, ser_stash |-> <<>>, buf |-> <<>>,
              in_frame |-> FALSE, ret |-> None, starved |-> FALSE]

\* device side: a frame or noise is put on the line
LegacyEmit ==
    /\ legacy.pc # "off"
    /\ legacy.nemit < MaxLegacyEmit
    /\ \E f \in LegacyTraffic(legacy.nemit + 1) :
          legacy' = [legacy EXCEPT !.wire = @ \o f, !.nemit = @ + 1]

\* fujibus.py 505-513: send_command._do writes the request and sets the
\* deadline
LegacyCall ==
    /\ legacy.pc = "idle"
    /\ legacy.ncalls < MaxLegacyCalls
    /\ legacy' = [legacy EXCEPT !.pc = "outer", !.late = FALSE,
                                !.ncalls = @ + 1, !.ret = None,
                                !.starved = FALSE]

\* fujibus.py 515-521, 420-434: the loop test of _do; the call of
\* _read_one_slip_frame up to its loop
LegacyOuter ==
    /\ legacy.pc = "outer"
    /\ \E late \in {legacy.late, TRUE} :
          legacy' =
             IF late
             THEN [legacy EXCEPT !.pc = "idle", !.late = TRUE, !.ret = None]
             ELSE [legacy EXCEPT !.pc = "read", !.buf = legacy.ser_stash,
                                 !.ser_stash = <<>>, !.in_frame = FALSE]

\* the first complete frame of the buffer decodes to a packet
HoldsPacket(buf) ==
    LET e == _extract_frame_from_rx(buf)
    IN  e.frame # None /\ DecodeFrame(e.frame[1]) # None

\* fujibus.py 436-481 and 523-549: one iteration of the loop of
\* _read_one_slip_frame; when it returns a frame, the handling of the frame
\* in _do
LegacyRead ==
    /\ legacy.pc = "read"
    /\ \E late \in {legacy.late, TRUE} :
          LET chunk == legacy.wire
              buf1 == legacy.buf \o chunk
              start_index == IndexFrom(buf1, SLIP_END, 1)
              buf2 == IF legacy.in_frame THEN buf1
                      ELSE SubSeq(buf1, start_index, Len(buf1))
              end_index == IndexFrom(buf2, SLIP_END, 2)
              frame == SubSeq(buf2, 1, end_index)
              remainder == SubSeq(buf2, end_index + 1, Len(buf2))
          IN  legacy' =
                 IF late
                 THEN [legacy EXCEPT !.pc = "idle", !.late = TRUE,
                                     !.ser_stash = legacy.buf, !.ret = None]
                 ELSE IF chunk = <<>>
                 THEN [legacy EXCEPT
                          !.starved = @ \/ HoldsPacket(legacy.buf)]
                 ELSE IF ~legacy.in_frame /\ start_index = 0
                 THEN [legacy EXCEPT !.buf = buf1, !.wire = <<>>]
                 ELSE IF end_index = 0
                 THEN [legacy EXCEPT !.buf = buf2, !.wire = <<>>,
                                     !.in_frame = TRUE]
                 ELSE IF DecodeFrame(frame) = None
                 THEN [legacy EXCEPT !.pc = "outer", !.wire = <<>>,
                                     !.buf = buf2, !.in_frame = TRUE,
                                     !.ser_stash = remainder]
                 ELSE [legacy EXCEPT !.pc = "idle", !.wire = <<>>,
                                     !.buf = buf2, !.in_frame = TRUE,
                                     !.ser_stash = remainder,
                                     !.ret = DecodeFrame(frame)]

\* ------------------------------------------------------------------------
\* The length header of a Write request packet.  The packet is held by its
\* sizes: the bytes of the data do not enter the length arithmetic.
\* ------------------------------------------------------------------------
\* len(data) of the Write requests built: the small sizes, and the sizes up
\* to the builders' limit and one past it
WriteDataLens == (0..MaxWriteData) \cup ((65535 - MaxWriteData)..65536)

\* the callers: np.build_write_req, and fp.build_write with the lengths of
\* fs and path
WriteBuilders ==
    {[proto |-> "net", fs_len |-> 0, path_len |-> 0]}
    \cup {[proto |-> "file", fs_len |-> f, path_len |-> q] :
            f \in 1..MaxFsLen, q \in 1..MaxPathLen}

VARIABLE
    wr_pkt  \* one Write request: [pc, builder, data_len, payload_len, size,
            \*  length_bytes, parsed]
            \* pc: "off" | "new" | "raised" | "req" | "built" | "checked";
            \* size: len(pkt) in build_fuji_packet; length_bytes: pkt[2] and
            \* pkt[3]; parsed: parse_fuji_packet got past its length test

WrPktInit ==
    /\ wr_pkt \in [pc : {"new"}, builder : WriteBuilders,
                   data_len : WriteDataLens, payload_len : {0}, size : {0},
                   length_bytes : {<<0, 0>>}, parsed : {FALSE}]

WrPktIdle ==
    wr_pkt = [pc |-> "off", builder |-> [proto |-> "net", fs_len |-> 0,
                                         path_len |-> 0],
              data_len |-> 0, payload_len |-> 0, size |-> 0,
              length_bytes |-> <<0, 0>>, parsed |-> FALSE]

\* len(build_common(fs, path)): version, fsLen, fs, pathLen (u16), path
build_common_len(fs_len, path_len) == 1 + 1 + fs_len + 2 + path_len

\* netproto.build_write_req: version, handle (u16), offset (u32),
\* len (u16), data; fileproto.build_write: common, offset (u32), len (u16),
\* data.  Both refuse more than 65535 bytes of data.
WrPktRequest ==
    /\ wr_pkt.pc = "new"
    /\ LET b == wr_pkt.builder
           head == IF b.proto = "net" THEN 1 + 2 + 4 + 2
                   ELSE build_common_len(b.fs_len, b.path_len) + 4 + 2
       IN  wr_pkt' =
              IF wr_pkt.data_len > 65535
              THEN [wr_pkt EXCEPT !.pc = "raised"]
              ELSE [wr_pkt EXCEPT !.pc = "req",
                                  !.payload_len = head + wr_pkt.data_len]

\* pkt[2] and pkt[3] of build_fuji_packet
LengthBytes(length) == <<length % 256, (length \div 256) % 256>>

\* build_fuji_packet: the size of pkt and its length header
WrPktBuild ==
    /\ wr_pkt.pc = "req"
    /\ LET length == HEADER_SIZE + wr_pkt.payload_len
       IN  wr_pkt' = [wr_pkt EXCEPT !.pc = "built", !.size = length,
                                    !.length_bytes = LengthBytes(length)]

\* parse_fuji_packet on the decoded packet,
\* up to `if length != len(decoded): return None`
WrPktParse ==
    /\ wr_pkt.pc = "built"
    /\ LET length == wr_pkt.length_bytes[1] + 256 * wr_pkt.length_bytes[2]
       IN  wr_pkt' = [wr_pkt EXCEPT !.pc = "checked",
                                    !.parsed = (wr_pkt.size >= HEADER_SIZE
                                                /\ length = wr_pkt.size)]

\* ------------------------------------------------------------------------
\* cmd_net_tcp_repl: the command loop.  The device gives every accepted Open
\* a handle it has not given before; each request is logged as
\* <<request, handle, REPL command>>.
\* ------------------------------------------------------------------------
\* the REPL commands that call ensure_open and then send one kind of request
SessionCommands ==
    {<<"info", "Info">>, <<"send", "Write">>, <<"sendhex", "Write">>,
     <<"halfclose", "Write">>, <<"recv", "Read">>, <<"drain", "Read">>}

VARIABLE
    repl  \* [pc, sess, next_handle, reqs, ncmds, no_session]
          \* pc: "off" | "prompt" | "exited"; sess: None or <<handle>>;
          \* next_handle: the handle the device gives to the next accepted
          \* Open; reqs: the requests sent on handles, in order; no_session:
          \* the last command ended with "No open session"

\* the REPL at its first prompt, started without a URL or with one that
\* tcp_open opened
ReplInit ==
    \/ repl = [pc |-> "prompt", sess |-> None, next_handle |-> 1,
               reqs |-> <<>>, ncmds |-> 0, no_session |-> FALSE]
    \/ repl = [pc |-> "prompt", sess |-> Some(1), next_handle |-> 2,
               reqs |-> <<>>, ncmds |-> 0, no_session |-> FALSE]

ReplIdle ==
    repl = [pc |-> "off", sess |-> None, next_handle |-> 1, reqs |-> <<>>,
            ncmds |-> 0, no_session |-> FALSE]

\* the requests of a best-effort tcp_close of the current session, if any
CloseCurrent(sess, cmd) ==
    IF sess = None THEN <<>> ELSE <<<<"Close", sess[1], cmd>>>>

\* `open <url>`: the old session is closed, errors ignored; tcp_open then
\* returns a session, or raises before or after the device gave a handle
ReplOpen ==
    /\ repl.pc = "prompt"
    /\ repl.ncmds < MaxReplCmds
    /\ \E outcome \in {"opened", "refused", "connect_timeout"} :
          repl' = [repl EXCEPT
                      !.ncmds = @ + 1,
                      !.no_session = FALSE,
                      !.reqs = @ \o CloseCurrent(repl.sess, "open"),
                      !.next_handle = IF outcome = "refused" THEN @ ELSE @ + 1,
                      !.sess = IF outcome = "opened"
                               THEN Some(repl.next_handle) ELSE @]

\* `close`: ensure_open, tcp_close, and `sess = None` when tcp_close returned
ReplClose ==
    /\ repl.pc = "prompt"
    /\ repl.ncmds < MaxReplCmds
    /\ \E close_ok \in BOOLEAN :
          repl' = IF repl.sess = None
                  THEN [repl EXCEPT !.ncmds = @ + 1, !.no_session = TRUE]
                  ELSE [repl EXCEPT
                           !.ncmds = @ + 1,
                           !.no_session = FALSE,
                           !.reqs = Append(@, <<"Close", repl.sess[1], "close">>),
                           !.sess = IF close_ok THEN None ELSE @]

\* info, send, sendhex, halfclose, recv, drain: ensure_open, then the
\* command's first request on the session's handle
ReplSessionCommand ==
    /\ repl.pc = "prompt"
    /\ repl.ncmds < MaxReplCmds
    /\ \E c \in SessionCommands :
          repl' = IF repl.sess = None
                  THEN [repl EXCEPT !.ncmds = @ + 1, !.no_session = TRUE]
                  ELSE [repl EXCEPT
                           !.ncmds = @ + 1,
                           !.no_session = FALSE,
                           !.reqs = Append(@, <<c[2], repl.sess[1], c[1]>>)]

\* quit / exit: a best-effort tcp_close, then return 0
ReplQuit ==
    /\ repl.pc = "prompt"
    /\ repl' = [repl EXCEPT !.pc = "exited",
                            !.no_session = FALSE,
                            !.reqs = @ \o CloseCurrent(repl.sess, "quit")]

\* ------------------------------------------------------------------------
\* cmd_net_head (net.py): Open(HEAD), Info, Close
\* ------------------------------------------------------------------------
HttpStatuses == {200, 301, 404}

\* device side: the outcomes of the Info request of net head: no response,
\* an error status, or Ok with the fields parse_info_resp returns
HeadInfoAnswers ==
    {None}
    \cup {Some([status |-> st, http_status |-> 0, content_length |-> 0,
                has_headers |-> FALSE]) :
            st \in {STATUS_NOT_READY, STATUS_IO_ERROR}}
    \cup {Some([status |-> STATUS_OK, http_status |-> h, content_length |-> c,
                has_headers |-> b]) :
            h \in HttpStatuses, c \in 0..MaxContentLength, b \in BOOLEAN}

VARIABLE
    net_head  \* [pc, open, handle, info, cmds, exit]
              \* pc: "off" | "open" | "info" | "close" | "exit"; open, info:
              \* what the send helper returned; handle: None or <<handle>>;
              \* cmds: the commands of the requests sent; exit: None or
              \* <<the exit code>>

NetHeadInit ==
    net_head = [pc |-> "open", open |-> None, handle |-> None, info |-> None,
                cmds |-> <<>>, exit |-> None]

NetHeadIdle ==
    net_head = [pc |-> "off", open |-> None, handle |-> None, info |-> None,
                cmds |-> <<>>, exit |-> None]

\* net.py 489-515: Open; `handle = orr.handle` follows parse_open_resp
\* directly
NhOpen ==
    /\ net_head.pc = "open"
    /\ \E pkt \in OpenAnswers :
          net_head' =
             IF pkt = None
             THEN [net_head EXCEPT !.cmds = Append(@, CMD_OPEN), !.open = pkt,
                                   !.pc = "exit", !.exit = Some(2)]
             ELSE IF ~status_ok(pkt)
             THEN [net_head EXCEPT !.cmds = Append(@, CMD_OPEN), !.open = pkt,
                                   !.pc = "exit", !.exit = Some(1)]
             ELSE [net_head EXCEPT !.cmds = Append(@, CMD_OPEN), !.open = pkt,
                                   !.pc = "info",
                                   !.handle = Some(pkt[1].handle)]

\* net.py 517-538: Info, and the line printed from it
NhInfo ==
    /\ net_head.pc = "info"
    /\ \E ipkt \in HeadInfoAnswers :
          net_head' =
             IF ipkt = None
             THEN [net_head EXCEPT !.cmds = Append(@, CMD_INFO), !.info = ipkt,
                                   !.pc = "exit", !.exit = Some(2)]
             ELSE IF ~status_ok(ipkt)
             THEN [net_head EXCEPT !.cmds = Append(@, CMD_INFO), !.info = ipkt,
                                   !.pc = "exit", !.exit = Some(1)]
             ELSE [net_head EXCEPT !.cmds = Append(@, CMD_INFO), !.info = ipkt,
                                   !.pc = "close"]

\* net.py 540-550: Close, whatever its response, and return 0
NhClose ==
    /\ net_head.pc = "close"
    /\ net_head' = [net_head EXCEPT !.cmds = Append(@, CMD_CLOSE),
                                    !.pc = "exit", !.exit = Some(0)]

\* ------------------------------------------------------------------------
\* Specifications
\* ------------------------------------------------------------------------
\* the commands modelled as one record of locals each
cmdVars == <<dfs_read, clock_get, legacy, wr_pkt, repl, net_head>>

CmdIdle ==
    /\ DfsReadIdle /\ ClockGetIdle /\ LegacyIdle /\ WrPktIdle /\ ReplIdle
    /\ NetHeadIdle

lateVars == <<netGetVars, tcpVars, protoVars, dfsVars, cmdVars>>

LateIdle == NetGetIdle /\ TcpIdle /\ ProtoIdle /\ DfsIdle /\ CmdIdle

ioVars == <<readVars, writeVars, netSendVars, lateVars>>

IoIdle == ReadIdle /\ WriteIdle /\ NetSendIdle /\ LateIdle

restVars == <<sumVars, parseVars, notReadyVars, ioVars>>

RestIdle == SumIdle /\ ParseIdle /\ NotReadyIdle /\ IoIdle

vars == <<sessVars, retryVars, slipVars, pktVars, restVars>>

\* the session against a device that sends responses and line noise
Init == SessInit /\ RetryInit /\ SlipIdle /\ PktIdle /\ RestIdle

Next ==
    \/ DeviceEmit /\ UNCHANGED <<retryVars, slipVars, pktVars, restVars>>
    \/ ClientCall /\ UNCHANGED <<retryVars, slipVars, pktVars, restVars>>
    \/ OuterLoop /\ UNCHANGED <<retryVars, slipVars, pktVars, restVars>>
    \/ InnerLoop /\ UNCHANGED <<retryVars, slipVars, pktVars, restVars>>

Spec == Init /\ [][Next]_vars

\* commands sent through _send_retry to a device that answers each request once
InitRetry == SessInit /\ RetryInit /\ SlipIdle /\ PktIdle /\ RestIdle

NextRetry ==
    \/ RetryStart /\ UNCHANGED <<slipVars, pktVars, restVars>>
    \/ RetryTop /\ UNCHANGED <<slipVars, pktVars, restVars>>
    \/ RetryAfter /\ UNCHANGED <<slipVars, pktVars, restVars>>
    \/ DeviceAnswer /\ UNCHANGED <<slipVars, pktVars, restVars>>
    \/ OuterLoop /\ UNCHANGED <<retryVars, slipVars, pktVars, restVars>>
    \/ InnerLoop /\ UNCHANGED <<retryVars, slipVars, pktVars, restVars>>

SpecRetry == InitRetry /\ [][NextRetry]_vars

\* the framer and the SLIP codec on bounded byte strings
InitSlip == SlipInit /\ SessInit /\ RetryInit /\ PktIdle /\ RestIdle

NextSlip ==
    \/ SlipLoad /\ UNCHANGED <<sessVars, retryVars, pktVars, restVars>>
    \/ SlipExtract /\ UNCHANGED <<sessVars, retryVars, pktVars, restVars>>
    \/ SlipRoundTrip /\ UNCHANGED <<sessVars, retryVars, pktVars, restVars>>

SpecSlip == InitSlip /\ [][NextSlip]_vars

\* the framer on a buffer of arbitrary received bytes
NextExtract ==
    \/ SlipReceive /\ UNCHANGED <<sessVars, retryVars, pktVars, restVars>>
    \/ SlipExtract /\ UNCHANGED <<sessVars, retryVars, pktVars, restVars>>

SpecExtract == InitSlip /\ [][NextExtract]_vars

\* build and parse on bounded inputs
InitPacket == PktInit /\ SessInit /\ RetryInit /\ SlipIdle /\ RestIdle

NextPacket ==
    \/ PktBuild /\ UNCHANGED <<sessVars, retryVars, slipVars, restVars>>
    \/ PktParseWire /\ UNCHANGED <<sessVars, retryVars, slipVars, restVars>>
    \/ PktParseDecoded /\ UNCHANGED <<sessVars, retryVars, slipVars, restVars>>

SpecPacket == InitPacket /\ [][NextPacket]_vars

\* calc_checksum on bounded byte strings
InitSum ==
    /\ SumInit /\ SessInit /\ RetryInit /\ SlipIdle /\ PktIdle
    /\ ParseIdle /\ NotReadyIdle /\ IoIdle

NextSum ==
    \/ SumCall /\ UNCHANGED <<sessVars, retryVars, slipVars, pktVars, parseVars,
                            notReadyVars, ioVars>>

SpecSum == InitSum /\ [][NextSum]_vars

\* parse_fuji_packet on bounded byte strings
InitParse ==
    /\ ParseInit /\ SessInit /\ RetryInit /\ SlipIdle /\ PktIdle
    /\ SumIdle /\ NotReadyIdle /\ IoIdle

NextParse ==
    \/ ParseCall /\ UNCHANGED <<sessVars, retryVars, slipVars, pktVars, sumVars,
                              notReadyVars, ioVars>>

SpecParse == InitParse /\ [][NextParse]_vars

\* _send_retry_not_ready over the session, against a device that answers
\* every request once, after any delay, with Ok, DeviceBusy or NotReady
InitNotReady ==
    /\ NotReadyInit /\ SessInit /\ RetryInit /\ SlipIdle /\ PktIdle
    /\ SumIdle /\ ParseIdle /\ IoIdle

otherThanNotReady ==
    <<retryVars, slipVars, pktVars, sumVars, parseVars, ioVars>>

NextNotReady ==
    \/ NotReadyStart /\ UNCHANGED otherThanNotReady
    \/ NotReadyTop /\ UNCHANGED otherThanNotReady
    \/ NotReadyAfter /\ UNCHANGED otherThanNotReady
    \/ DeviceAnswerBusy /\ UNCHANGED <<otherThanNotReady, notReadyVars>>
    \/ OuterLoop /\ UNCHANGED <<otherThanNotReady, notReadyVars>>
    \/ InnerLoop /\ UNCHANGED <<otherThanNotReady, notReadyVars>>

SpecNotReady == InitNotReady /\ [][NextNotReady]_vars

\* the streaming read loops, each against a device that answers a Read with
\* no response, an error status, or data at the requested or another offset
coreVars == <<sessVars, retryVars, slipVars, pktVars, sumVars, parseVars,
              notReadyVars>>

CoreIdle ==
    /\ SessInit /\ RetryInit /\ SlipIdle /\ PktIdle
    /\ SumIdle /\ ParseIdle /\ NotReadyIdle

baseVars == <<coreVars, lateVars>>

BaseIdle == CoreIdle /\ LateIdle

InitRead == ReadInit /\ BaseIdle /\ WriteIdle /\ NetSendIdle

NextRead ==
    \/ RdRequest /\ UNCHANGED <<baseVars, writeVars, netSendVars>>
    \/ DeviceReadAnswer /\ UNCHANGED <<baseVars, writeVars, netSendVars>>
    \/ RdNetGet /\ UNCHANGED <<baseVars, writeVars, netSendVars>>
    \/ RdNetSend /\ UNCHANGED <<baseVars, writeVars, netSendVars>>
    \/ RdTcpSendrecv /\ UNCHANGED <<baseVars, writeVars, netSendVars>>
    \/ RdFileReadAll /\ UNCHANGED <<baseVars, writeVars, netSendVars>>
    \/ RdModemDrain /\ UNCHANGED <<baseVars, writeVars, netSendVars>>

SpecRead == InitRead /\ [][NextRead]_vars

\* the chunked write loops, each against a device that answers a Write with
\* no response, an error status, or an Ok response
InitWrite == WriteInit /\ BaseIdle /\ ReadIdle /\ NetSendIdle

NextWrite ==
    \/ WrLoop /\ UNCHANGED <<baseVars, readVars, netSendVars>>
    \/ DeviceWriteAnswer /\ UNCHANGED <<baseVars, readVars, netSendVars>>
    \/ WrTcpSend /\ UNCHANGED <<baseVars, readVars, netSendVars>>
    \/ WrNetSend /\ UNCHANGED <<baseVars, readVars, netSendVars>>
    \/ WrFileWrite /\ UNCHANGED <<baseVars, readVars, netSendVars>>

SpecWrite == InitWrite /\ [][NextWrite]_vars

\* cmd_net_send against a device that answers each request with no response,
\* an error status, or an Ok response
InitNetSend == NetSendInit /\ BaseIdle

NextNetSend ==
    \/ NsOpen /\ UNCHANGED baseVars
    \/ NsBodyCheck /\ UNCHANGED baseVars
    \/ WrLoop /\ UNCHANGED <<baseVars, readVars, netSendVars>>
    \/ DeviceWriteAnswer /\ UNCHANGED <<baseVars, readVars, netSendVars>>
    \/ WrNetSend /\ UNCHANGED <<baseVars, readVars, netSendVars>>
    \/ NsBodyEnd /\ UNCHANGED baseVars
    \/ NsInfo /\ UNCHANGED baseVars
    \/ NsReadCheck /\ UNCHANGED baseVars
    \/ RdRequest /\ UNCHANGED <<baseVars, writeVars, netSendVars>>
    \/ DeviceReadAnswer /\ UNCHANGED <<baseVars, writeVars, netSendVars>>
    \/ RdNetSend /\ UNCHANGED <<baseVars, writeVars, netSendVars>>
    \/ NsReadEnd /\ UNCHANGED baseVars
    \/ NsClose /\ UNCHANGED baseVars

SpecNetSend == InitNetSend /\ [][NextNetSend]_vars

\* cmd_net_get against a device that answers each request with no response,
\* an error status, or an Ok response
InitNetGet ==
    /\ NetGetInit /\ CoreIdle /\ WriteIdle /\ NetSendIdle /\ TcpIdle
    /\ ProtoIdle /\ DfsIdle /\ CmdIdle

otherThanNetGet ==
    <<coreVars, writeVars, netSendVars, tcpVars, protoVars, dfsVars, cmdVars>>

NextNetGet ==
    \/ NgStart /\ UNCHANGED otherThanNetGet
    \/ NgOpen /\ UNCHANGED otherThanNetGet
    \/ NgInfo /\ UNCHANGED otherThanNetGet
    \/ NgReadRequest /\ UNCHANGED otherThanNetGet
    \/ DeviceReadAnswer /\ UNCHANGED <<otherThanNetGet, netGetVars>>
    \/ RdNetGet /\ UNCHANGED <<otherThanNetGet, netGetVars>>
    \/ NgReadEnd /\ UNCHANGED otherThanNetGet
    \/ NgClose /\ UNCHANGED otherThanNetGet

SpecNetGet == InitNetGet /\ [][NextNetGet]_vars

\* tcp_open against a device that answers Open and each Info with no
\* response, an error status, or an Ok response
otherThanTcp ==
    <<coreVars, netSendVars, netGetVars, protoVars, dfsVars, cmdVars>>

InitTcpOpen ==
    /\ TcpInit /\ CoreIdle /\ ReadIdle /\ WriteIdle /\ NetSendIdle
    /\ NetGetIdle /\ ProtoIdle /\ DfsIdle /\ CmdIdle

NextTcpOpen ==
    \/ TcpOpen /\ UNCHANGED <<otherThanTcp, readVars, writeVars>>
    \/ TcpPoll /\ UNCHANGED <<otherThanTcp, readVars, writeVars>>

SpecTcpOpen == InitTcpOpen /\ [][NextTcpOpen]_vars

\* calls of tcp_recv_some and tcp_send on a new TcpStreamSession, against a
\* device that answers each request with no response, an error status, or an
\* Ok response
InitTcp ==
    /\ TcpSessionInit /\ CoreIdle /\ NetSendIdle /\ NetGetIdle /\ ProtoIdle
    /\ DfsIdle /\ CmdIdle

NextTcp ==
    \/ TcpRecvRequest /\ UNCHANGED <<otherThanTcp, writeVars>>
    \/ DeviceReadAnswer /\ UNCHANGED <<otherThanTcp, writeVars, tcpVars>>
    \/ TcpRecvSome /\ UNCHANGED otherThanTcp
    \/ TcpSendCall /\ UNCHANGED otherThanTcp
    \/ WrLoop /\ UNCHANGED <<otherThanTcp, readVars, tcpVars>>
    \/ DeviceWriteAnswer /\ UNCHANGED <<otherThanTcp, readVars, tcpVars>>
    \/ WrTcpSend /\ UNCHANGED <<otherThanTcp, readVars, tcpVars>>
    \/ TcpSendEnd /\ UNCHANGED otherThanTcp

SpecTcp == InitTcp /\ [][NextTcp]_vars

\* the response parsers on bounded payloads
InitProto ==
    /\ ProtoInit /\ CoreIdle /\ ReadIdle /\ WriteIdle /\ NetSendIdle
    /\ NetGetIdle /\ TcpIdle /\ DfsIdle /\ CmdIdle

NextProto ==
    \/ ProtoCall /\ UNCHANGED <<coreVars, readVars, writeVars, netSendVars,
                              netGetVars, tcpVars, dfsVars, cmdVars>>

SpecProto == InitProto /\ [][NextProto]_vars

\* parse_dfs_catalogue_090 on catalogues packed from bounded values
InitDfs ==
    /\ DfsInit /\ CoreIdle /\ ReadIdle /\ WriteIdle /\ NetSendIdle
    /\ NetGetIdle /\ TcpIdle /\ ProtoIdle /\ CmdIdle

NextDfs ==
    \/ DfsParse /\ UNCHANGED <<coreVars, readVars, writeVars, netSendVars,
                             netGetVars, tcpVars, protoVars, cmdVars>>

SpecDfs == InitDfs /\ [][NextDfs]_vars

\* the state of the specifications above
priorVars == <<coreVars, readVars, writeVars, netSendVars, netGetVars,
               tcpVars, protoVars, dfsVars>>

PriorIdle ==
    /\ CoreIdle /\ ReadIdle /\ WriteIdle /\ NetSendIdle /\ NetGetIdle
    /\ TcpIdle /\ ProtoIdle /\ DfsIdle

\* cmd_dfs_read from the catalogue entry on, against a device that answers
\* each ReadSector with no response, an error status, or Ok and some bytes
InitDfsRead ==
    /\ DfsReadInit /\ PriorIdle /\ ClockGetIdle /\ LegacyIdle
    /\ WrPktIdle /\ ReplIdle /\ NetHeadIdle

otherThanDfsRead == <<priorVars, clock_get, legacy, wr_pkt, repl, net_head>>

NextDfsRead ==
    \/ DfsReadLoop /\ UNCHANGED otherThanDfsRead
    \/ DeviceSectorAnswer /\ UNCHANGED otherThanDfsRead
    \/ DfsReadSector /\ UNCHANGED otherThanDfsRead

SpecDfsRead == InitDfsRead /\ [][NextDfsRead]_vars

\* cmd_clock_get against a device that answers with no response, an error
\* status, or Ok and a payload
InitClockGet ==
    /\ ClockGetInit /\ PriorIdle /\ DfsReadIdle /\ LegacyIdle
    /\ WrPktIdle /\ ReplIdle /\ NetHeadIdle

otherThanClockGet == <<priorVars, dfs_read, legacy, wr_pkt, repl, net_head>>

NextClockGet ==
    \/ ClockGetSend /\ UNCHANGED otherThanClockGet
    \/ DeviceClockAnswer /\ UNCHANGED otherThanClockGet
    \/ ClockGetEnd /\ UNCHANGED otherThanClockGet

SpecClockGet == InitClockGet /\ [][NextClockGet]_vars

\* calls of the module-level send_command on one open port, against a device
\* that sends responses and line noise
InitLegacy ==
    /\ LegacyInit /\ PriorIdle /\ DfsReadIdle /\ ClockGetIdle
    /\ WrPktIdle /\ ReplIdle /\ NetHeadIdle

otherThanLegacy ==
    <<priorVars, dfs_read, clock_get, wr_pkt, repl, net_head>>

NextLegacy ==
    \/ LegacyEmit /\ UNCHANGED otherThanLegacy
    \/ LegacyCall /\ UNCHANGED otherThanLegacy
    \/ LegacyOuter /\ UNCHANGED otherThanLegacy
    \/ LegacyRead /\ UNCHANGED otherThanLegacy

SpecLegacy == InitLegacy /\ [][NextLegacy]_vars

\* Write requests of every size the builders accept, built into packets and
\* parsed back
InitWrPkt ==
    /\ WrPktInit /\ PriorIdle /\ DfsReadIdle /\ ClockGetIdle /\ LegacyIdle
    /\ ReplIdle /\ NetHeadIdle

otherThanWrPkt ==
    <<priorVars, dfs_read, clock_get, legacy, repl, net_head>>

NextWrPkt ==
    \/ WrPktRequest /\ UNCHANGED otherThanWrPkt
    \/ WrPktBuild /\ UNCHANGED otherThanWrPkt
    \/ WrPktParse /\ UNCHANGED otherThanWrPkt

SpecWrPkt == InitWrPkt /\ [][NextWrPkt]_vars

\* a user at the prompt of the TCP REPL, typing any commands
InitRepl ==
    /\ ReplInit /\ PriorIdle /\ DfsReadIdle /\ ClockGetIdle /\ LegacyIdle
    /\ WrPktIdle /\ NetHeadIdle

otherThanRepl ==
    <<priorVars, dfs_read, clock_get, legacy, wr_pkt, net_head>>

NextRepl ==
    \/ ReplOpen /\ UNCHANGED otherThanRepl
    \/ ReplClose /\ UNCHANGED otherThanRepl
    \/ ReplSessionCommand /\ UNCHANGED otherThanRepl
    \/ ReplQuit /\ UNCHANGED otherThanRepl

SpecRepl == InitRepl /\ [][NextRepl]_vars

\* cmd_net_head against a device that answers Open and Info in any way
InitNetHead ==
    /\ NetHeadInit /\ PriorIdle /\ DfsReadIdle /\ ClockGetIdle /\ LegacyIdle
    /\ WrPktIdle /\ ReplIdle

otherThanNetHead == <<priorVars, dfs_read, clock_get, legacy, wr_pkt, repl>>

NextNetHead ==
    \/ NhOpen /\ UNCHANGED otherThanNetHead
    \/ NhInfo /\ UNCHANGED otherThanNetHead
    \/ NhClose /\ UNCHANGED otherThanNetHead

SpecNetHead == InitNetHead /\ [][NextNetHead]_vars

\* ------------------------------------------------------------------------
\* Properties of the session (specification Spec)
\* ------------------------------------------------------------------------
IsPrefix(a, b) == Len(a) <= Len(b) /\ SubSeq(b, 1, Len(a)) = a

InSeq(x, q) == \E i \in 1..Len(q) : q[i] = x

\* the packets read so far under `key` and not in `gone`, in arrival order
Waiting(key, gone) ==
    SelectSeq(log, LAMBDA p : KeyOf(p) = key /\ ~InSeq(p, gone))

\* every frame repeated extraction takes out of one buffer
RECURSIVE ExtractAll(_)
ExtractAll(buf) ==
    LET e == _extract_frame_from_rx(buf)
    IN  IF e.frame = None THEN <<>> ELSE <<e.frame[1]>> \o ExtractAll(e.rx)

\* C1: a packet returned by send_command_expect has the expected (device,
\* command) and is the earliest-read packet of that key that no earlier call
\* returned: a stashed match goes before a newly received one, and of the
\* packets read during the call the first match is the one returned.
C1_ReturnsEarliestMatch ==
    (pc = "idle" /\ ret # None) =>
        /\ KeyOf(ret[1]) = expect
        /\ LET before == SubSeq(delivered, 1, Len(delivered) - 1)
               cand == Waiting(expect, before)
           IN  cand # <<>> /\ ret[1] = Head(cand)

\* a stashed packet was returned while a later packet of the same key was
\* already waiting on the wire
C1_Witness ==
    /\ pc = "idle"
    /\ ret # None
    /\ StashGet(stash0, expect) # <<>>
    /\ \E i \in 1..Len(emitted) :
          /\ KeyOf(emitted[i]) = expect
          /\ emitted[i] # ret[1]
          /\ ~InSeq(emitted[i], log)

\* C2: a call that finds a stashed packet under the expected key returns the
\* oldest one at once: nothing is written, nothing is read, and the stash
\* loses exactly that packet.
C2_StashHitIsImmediate ==
    [][(pc = "idle" /\ ncalls' = ncalls + 1 /\ StashGet(stash, expect') # <<>>)
        => /\ pc' = "idle"
           /\ ret' = Some(Head(stash[expect']))
           /\ tx' = tx
           /\ wire' = wire
           /\ rx' = rx
           /\ StashGet(stash', expect') = Tail(stash[expect'])
           /\ DOMAIN stash' \subseteq DOMAIN stash
           /\ \A k \in DOMAIN stash \ {expect'} :
                 k \in DOMAIN stash' /\ stash'[k] = stash[k]]_vars

\* a stash hit that left a packet of another key and a packet of the same key
\* behind
C2_Witness ==
    /\ pc = "idle"
    /\ StashGet(stash0, expect) # <<>>
    /\ ret = Some(Head(stash0[expect]))
    /\ tx = <<build_fuji_packet(NETWORK_DEVICE_ID, CMD_CLOSE, <<>>)>>
    /\ \E k \in DOMAIN stash : k # expect

\* C3: every packet read and not yet returned is in the stash under its own
\* (device, command), in arrival order, and nothing else is there: a packet
\* read while another key was awaited stays until a call for its key pops it.
C3_StashKeepsEveryPacket ==
    /\ \A k \in DOMAIN stash : stash[k] # <<>>
    /\ \A k \in DOMAIN stash \cup {KeyOf(log[i]) : i \in 1..Len(log)} :
          StashGet(stash, k) = Waiting(k, delivered)

\* two packets of one key sit in the stash in arrival order after a second
\* call has timed out
C3_Witness ==
    /\ pc = "idle"
    /\ ncalls >= 2
    /\ ret = None
    /\ \E k \in DOMAIN stash \cap DOMAIN stash0 :
          Len(stash[k]) >= 2 /\ Len(stash0[k]) = 1

\* C4: a call returns None only at its deadline and with no packet of the
\* expected key at hand, and as long as a call has not returned a packet the
\* stash holds everything it held when the call began, in the same order.
C4_TimeoutKeepsStash ==
    (ncalls > 0 /\ (pc # "idle" \/ ret = None)) =>
        /\ \A k \in DOMAIN stash0 : IsPrefix(stash0[k], StashGet(stash, k))
        /\ pc = "idle" => (expired /\ StashGet(stash, expect) = <<>>)

\* a call timed out after adding to a stash that was not empty when it began
C4_Witness ==
    /\ pc = "idle"
    /\ ret = None
    /\ ncalls > 0
    /\ DOMAIN stash0 # {}
    /\ stash # stash0

\* C6: however the transport splits the stream into reads, the frames taken
\* out so far followed by the frames still to come from the buffered and
\* unread bytes are the frames of the whole stream taken in one read.
C6_SplitsLoseNothing ==
    frames \o ExtractAll(rx \o wire) = ExtractAll(sent)

\* a frame left unfinished at one call's deadline was finished in the next
\* call, which returned its packet
C6_Witness ==
    /\ pc = "idle"
    /\ ncalls >= 2
    /\ rx0
    /\ ret # None
    /\ stash0 = <<>>
    /\ Len(frames) = 1

\* C7: garbage never prevents delivery of what follows: once every byte sent
\* has been read and framed, every response packet the device sent has come
\* out of the receive path.
C7_GarbageNeverBlocks ==
    (wire = <<>> /\ _extract_frame_from_rx(rx).frame = None) => log = emitted

\* ------------------------------------------------------------------------
\* Properties of the retry helper (specification SpecRetry)
\* ------------------------------------------------------------------------
\* C5: the packet _send_retry returns for a logical command is the device's
\* answer to a request sent for that same command (the device echoes the
\* request payload, which is the command's number), never the answer to a
\* request of an earlier command.
C5_ResponseMatchesRequest ==
    (rpc = "idle" /\ rcmd > 0 /\ rret # None) => rret[1].payload = <<rcmd>>

\* ------------------------------------------------------------------------
\* Properties of the SLIP codec and framer (specification SpecSlip)
\* ------------------------------------------------------------------------
\* C8: from a buffer holding encode(b1) ++ encode(b2) the first extraction
\* returns exactly encode(b1), the second exactly encode(b2), and the buffer
\* is then empty.
C8_TwoFramesBackToBack ==
    /\ Len(sout) >= 1 => sout[1] = Some(slip_encode(sb1))
    /\ Len(sout) >= 2 => (sout[2] = Some(slip_encode(sb2)) /\ sbuf = <<>>)
    /\ Len(sout) >= 3 => sout[3] = None

\* both frames have been extracted, the first one holding escaped bytes
C8_Witness ==
    /\ Len(sout) = 2
    /\ Len(sb1) >= 2
    /\ Len(sout[1][1]) > Len(sb1) + 2
    /\ sb2 # <<>>

\* C9: slip_decode(slip_encode(b)) = b for every byte string b.
C9_SlipRoundTrip ==
    sphase = "decoded" => sdec = Some(sb1)

\* the round trip of a string holding an escape byte followed by ESC_END
C9_Witness ==
    /\ sphase = "decoded"
    /\ sb1 = <<SLIP_ESCAPE, SLIP_ESC_END, SLIP_END>>
    /\ sdec = Some(sb1)

\* ------------------------------------------------------------------------
\* Properties of build and parse (specification SpecPacket)
\* ------------------------------------------------------------------------
\* the packet parse returns carries the inputs of build, a matching checksum
\* and no params
RoundTripOk ==
    /\ pres # None
    /\ pres[1].device = pdev
    /\ pres[1].command = pcmd
    /\ pres[1].payload = ppay
    /\ pres[1].params = <<>>
    /\ pres[1].checksum_ok
    /\ pres[1].length = HEADER_SIZE + Len(ppay)

C11_ParseRejectsInvalid ==
    (qphase = "parsed" /\ parsed # None) =>
        /\ Len(decoded) >= HEADER_SIZE
        /\ decoded[3] + 256 * decoded[4] = Len(decoded)
        /\ decoded[5] = calc_checksum([decoded EXCEPT ![5] = 0])

C13_BusyAndNotReadyRetried ==
    (/\ nr_pc = "done"
     /\ nr_ret # None
     /\ _pkt_status_code(nr_ret) \in {STATUS_DEVICE_BUSY, STATUS_NOT_READY})
        => (nr_late \/ nr_attempt >= MaxRetries)

\* C14: every backoff sleep lasts at most 50 ms.
C14_SleepAtMostCap ==
    \A i \in 1..Len(nr_slept) : nr_slept[i] <= BACKOFF_MAX

\* ------------------------------------------------------------------------
\* Properties of the streaming read loops (specification SpecRead)
\* ------------------------------------------------------------------------
\* an Ok Read response that echoes another offset than the one requested
ReadEchoMismatch ==
    /\ status_ok(rd_resp)
    /\ rd_resp[1].offset # rd_req.offset

\* C15: in every streaming read loop a Read response whose echoed offset
\* differs from the requested one ends the operation as a failure, its data
\* is not written to the sink, and the read cursor is not advanced.
C15_EchoMismatchFailsRead ==
    [][(rd_pc = "handle" /\ ReadEchoMismatch) =>
          /\ rd_pc' = "failed"
          /\ rd_sink' = rd_sink
          /\ rd_chunks' = rd_chunks
          /\ rd_offset' = rd_offset]_vars

\* a loop that had written data failed on a mismatching response that
\* carried data
C15_Witness ==
    /\ rd_pc = "failed"
    /\ ReadEchoMismatch
    /\ rd_resp[1].data # <<>>
    /\ rd_sink # <<>>
    /\ rd_offset = rd_req.offset
    /\ rd_offset = Len(rd_sink)

\* ------------------------------------------------------------------------
\* Properties of the chunked write loops (specification SpecWrite)
\* ------------------------------------------------------------------------
\* an Ok Write response that echoes another offset than the one requested
WriteEchoMismatch ==
    /\ status_ok(wr_resp)
    /\ wr_resp[1].offset # wr_req.offset

\* C16: in every chunked write loop a Write response whose echoed offset
\* differs from the offset of its request makes the operation fail, and the
\* write cursor is not advanced by its `written`.
C16_EchoMismatchFailsWrite ==
    [][(wr_pc = "handle" /\ WriteEchoMismatch) =>
          /\ wr_pc' = "failed"
          /\ wr_offset' = wr_offset
          /\ wr_idx' = wr_idx]_vars

RECURSIVE SeqSum(_)
SeqSum(q) == IF q = <<>> THEN 0 ELSE Head(q) + SeqSum(Tail(q))

\* byte i of the data (1-based) is in request r, at stream offset
\* wr_base + i - 1
SubmittedIn(i, r) ==
    LET j == wr_base + i - r.offset
    IN  j \in 1..Len(r.part) /\ r.part[j] = wr_data[i]

\* C17: tcp_send advances by exactly `written`: each next chunk starts at the
\* data position and stream offset advanced by the `written` of the response
\* before it; on successful return every byte has been submitted at stream
\* offset = initial write_offset + its index, write_offset has grown by the
\* sum of the `written` values, and that sum, the return value, is len(data).
C17_AdvanceByWritten ==
    wr_path = "tcp_send" =>
        /\ \A k \in 1..Len(wr_log) :
              LET pos == SeqSum(SubSeq(wr_acks, 1, k - 1))
              IN  /\ wr_log[k].offset = wr_base + pos
                  /\ wr_log[k].part = Slice(wr_data, pos, wr_chunk)
        /\ wr_pc = "done" =>
              /\ \A i \in 1..Len(wr_data) :
                    \E k \in 1..Len(wr_log) : SubmittedIn(i, wr_log[k])
              /\ wr_offset = wr_base + SeqSum(wr_acks)
              /\ wr_idx = SeqSum(wr_acks)
              /\ wr_idx = Len(wr_data)

\* tcp_send returned after a response that reported fewer bytes written than
\* the chunk held, starting from a write_offset other than 0
C17_Witness ==
    /\ wr_path = "tcp_send"
    /\ wr_pc = "done"
    /\ wr_base > 0
    /\ Len(wr_data) = MaxData
    /\ \E k \in 1..Len(wr_acks) : wr_acks[k] < Len(wr_log[k].part)

C19_BodyOnlyWhenAsked ==
    /\ wr_log # <<>> =>
          /\ ns_method \in {METHOD_POST, METHOD_PUT}
          /\ status_ok(ns_open)
          /\ ns_open[1].accepted
          /\ ns_open[1].needs_body_write
    /\ (status_ok(ns_open) /\ OpenHint > 0 /\ ~ns_open[1].needs_body_write) =>
          /\ wr_log = <<>>
          /\ ns_pc \in {"body_check", "exit"}
          /\ ns_pc = "exit" => (ns_exit # None /\ ns_exit # Some(0))

\* a PUT with a body whose Open was accepted without needs_body_write has
\* returned
C19_Witness ==
    /\ ns_pc = "exit"
    /\ ns_method = METHOD_PUT
    /\ wr_data # <<>>
    /\ OpenHint > 0
    /\ status_ok(ns_open)
    /\ ns_open[1].accepted
    /\ ~ns_open[1].needs_body_write
    /\ wr_log = <<>>
    /\ ns_exit = Some(1)

\* C20: an orchestration that obtained a handle from an accepted Open sends
\* a Close for it before it returns, on failure paths as on success.
C20_CloseBeforeReturn ==
    (ns_pc = "exit" /\ ns_handle # None) =>
        (ns_cmds # <<>> /\ ns_cmds[Len(ns_cmds)] = CMD_CLOSE)

C23_NetGetOrder ==
    /\ \A i \in 1..Len(ng_cmds) :
          /\ ng_cmds[i] = CMD_OPEN => i = 1
          /\ ng_cmds[i] \in {CMD_INFO, CMD_READ} =>
                /\ i > 1
                /\ ng_cmds[1] = CMD_OPEN
                /\ status_ok(ng_open)
                /\ ng_open[1].accepted
          /\ ng_cmds[i] = CMD_INFO =>
                \A j \in 1..i : ng_cmds[j] # CMD_READ
          /\ ng_cmds[i] = CMD_CLOSE =>
                /\ i = Len(ng_cmds)
                /\ i > 1
                /\ rd_pc \in {"done", "failed"}
                /\ \A j \in 1..(i - 1) : ng_cmds[j] # CMD_CLOSE
    /\ (ng_pc = "read" /\ rd_pc \in {"wait", "handle"}) =>
          rd_req.offset = Len(rd_sink)

\* a run with Info polled twice, two Reads of which the second is at an
\* offset above 0, and Close
C23_Witness ==
    /\ ng_exit = Some(0)
    /\ Len(ng_cmds) >= 6
    /\ ng_cmds[2] = CMD_INFO
    /\ ng_cmds[3] = CMD_INFO
    /\ ng_cmds[Len(ng_cmds)] = CMD_CLOSE
    /\ rd_n >= 2
    /\ rd_req.offset > 0

\* C22: the read loop of net get that stops because the device kept answering
\* Ok, zero-length, non-eof makes the command report a failure: the command
\* exits with success only when the last Read response carried eof.
C22_IdleStopIsFailure ==
    (ng_exit = Some(0)) => (rd_resp # None /\ rd_resp[1].eof)

\* C26: a protocol error ends the command with exit code 2: when net get has
\* ended on a Read response that is Ok but echoes another offset than the one
\* requested, its exit code is 2.
C26_ProtocolErrorExits2 ==
    (/\ ng_exit # None
     /\ rd_pc = "failed"
     /\ status_ok(rd_resp)
     /\ rd_resp[1].offset # rd_offset) => ng_exit = Some(2)

\* a response whose status param is not Ok
NonOk(resp) == resp # None /\ resp[1].status # STATUS_OK

\* C27: when a response of any step (Open, Info, Read) of net get, as the send
\* helper returned it, carried a non-zero status, the command's exit code is 1.
C27_StatusPassthrough ==
    (/\ ng_exit # None
     /\ (NonOk(ng_open) \/ NonOk(ng_info) \/ NonOk(rd_resp)))
        => ng_exit = Some(1)

\* ------------------------------------------------------------------------
\* The TCP stream helpers (tcp_open under SpecTcpOpen,
\* tcp_recv_some under SpecTcp)
\* ------------------------------------------------------------------------
\* the header block has the line `X-FujiNet-Connected: 1`
HasConnected1(lines) ==
    \E i \in 1..Len(lines) :
       lines[i] = [name |-> HDR_CONNECTED, value |-> "1"]

\* C24: with wait_connected, tcp_open returns the session only on an Ok Info
\* response whose header block has X-FujiNet-Connected: 1; while the deadline
\* has not passed and Info brings no response, NotReady, or a header block
\* without that line, it polls again; once the deadline is seen passed it
\* raises the connect timeout and returns no session.
C24_OpenWaitsForConnected ==
    [][tc_pc = "poll" =>
         /\ tc_opened' =>
               /\ ~tc_late'
               /\ status_ok(tc_info')
               /\ HasConnected1(tc_info'[1].headers)
               /\ tc_pc' = "idle"
               /\ tc_err' = None
         /\ (/\ ~tc_late'
             /\ \/ tc_info' = None
                \/ tc_info'[1].status = STATUS_NOT_READY
                \/ /\ tc_info'[1].status = STATUS_OK
                   /\ ~HasConnected1(tc_info'[1].headers)) =>
               /\ tc_pc' = "poll"
               /\ ~tc_opened'
               /\ tc_err' = None
         /\ tc_late' =>
               /\ tc_err' = Some("Timed out waiting for TCP connect")
               /\ tc_pc' = "raised"
               /\ ~tc_opened'
      ]_vars

\* the session was returned on a header block of two lines, the second of
\* them X-FujiNet-Connected: 1
C24_Witness ==
    /\ tc_wait_connected
    /\ tc_opened
    /\ status_ok(tc_info)
    /\ Len(tc_info[1].headers) = 2
    /\ tc_info[1].headers[1] = [name |-> HDR_CONNECTING, value |-> "1"]
    /\ tc_info[1].headers[2] = [name |-> HDR_CONNECTED, value |-> "1"]

\* C25: tcp_recv_some reads at sess.read_offset.  On NotReady it returns
\* (empty, eof = false) without raising and leaves both offsets as they were;
\* on an Ok response for that offset it returns (data, eof) and moves
\* read_offset on by len(data), leaving write_offset; read_offset is always
\* the number of bytes returned since open.
C25_RecvSomeOffsets ==
    /\ [](rd_offset = Len(tc_returned))
    /\ [][(tc_pc = "idle" /\ rd_pc = "handle") =>
            /\ rd_req.offset = rd_offset
            /\ (rd_resp # None /\ rd_resp[1].status = STATUS_NOT_READY) =>
                  /\ tc_got' = Some([data |-> <<>>, eof |-> FALSE])
                  /\ tc_err' = None
                  /\ rd_offset' = rd_offset
                  /\ wr_offset' = wr_offset
            /\ (status_ok(rd_resp) /\ rd_resp[1].offset = rd_offset) =>
                  /\ tc_got' = Some([data |-> rd_resp[1].data,
                                     eof |-> rd_resp[1].eof])
                  /\ tc_err' = None
                  /\ rd_offset' = rd_offset + Len(rd_resp[1].data)
                  /\ wr_offset' = wr_offset
         ]_vars

\* NotReady was returned as (empty, false) after data had been received and
\* sent
C25_Witness ==
    /\ tc_pc = "idle"
    /\ rd_pc = "request"
    /\ rd_n >= 2
    /\ rd_offset > 0
    /\ wr_offset > 0
    /\ rd_resp # None
    /\ rd_resp[1].status = STATUS_NOT_READY
    /\ tc_got = Some([data |-> <<>>, eof |-> FALSE])



\* C28: a response parser called with a payload whose first byte is not 1
\* rejects it and returns no decoded value, whatever the remaining bytes are
C28_VersionGate ==
    (/\ pr_phase = "called" /\ pr_parser \in Parsers
     /\ pr_payload # <<>> /\ pr_payload[1] # 1)
        => (~pr_res.ok /\ pr_res.val = <<>>)

\* a payload that parses under version 1 was rejected under version 2
C28_Witness ==
    /\ pr_phase = "called"
    /\ pr_parser \in Parsers
    /\ Len(pr_payload) > 1
    /\ pr_payload[1] = 2
    /\ ParseResp(pr_parser, <<1>> \o Tail(pr_payload)).ok
    /\ ~pr_res.ok

\* the offset of the length of the length-prefixed field and its width
LenAt(parser) == 1 + Layout(parser).fixed
LenWidth(parser) == IF Layout(parser).var = "u16" THEN 2 ELSE 1

\* the length-prefixed field as the parser returned it
ReturnedField(parser, val) ==
    IF parser = "np.parse_info_resp" THEN val.header_bytes
    ELSE IF parser = "_parse_clock_timezone_resp" THEN val
    ELSE val.data

\* each returned name has the length its entry declares, and the entry's
\* name lies inside the payload
RECURSIVE NamesFit(_, _, _)
NamesFit(payload, off, entries) ==
    IF entries = <<>> THEN TRUE
    ELSE /\ off + 2 <= Len(payload)
         /\ off + 2 + payload[off + 2] <= Len(payload)
         /\ Len(Head(entries).name) = payload[off + 2]
         /\ NamesFit(payload, off + 2 + payload[off + 2] + 16, Tail(entries))

\* the declared length exceeds the bytes that remain after the length
DeclaresTooMuch(parser, payload) ==
    /\ Layout(parser).var \in {"u16", "u8"}
    /\ Len(payload) >= LenAt(parser) + LenWidth(parser)
    /\ FieldValue(payload, LenAt(parser), LenWidth(parser))
         > Len(payload) - (LenAt(parser) + LenWidth(parser))

\* the declared number of bytes after the length, as the parser hands them
\* on: a time zone name without its NUL padding, any other field as it is
DeclaredField(parser, payload) ==
    LET from == LenAt(parser) + LenWidth(parser)
        declared == FieldValue(payload, LenAt(parser), LenWidth(parser))
        field == SubSeq(payload, from + 1, from + declared)
    IN  IF parser = "_parse_clock_timezone_resp" THEN RStripNul(field)
        ELSE field

\* C29: a response parser returns a value only if every length-prefixed field
\* declares no more bytes than remain in the payload, and the field it
\* returns is made of exactly the declared number of bytes
C29_BoundsChecked ==
    (pr_phase = "called" /\ pr_res.ok) =>
        IF Layout(pr_parser).var \in {"u16", "u8"}
        THEN /\ ~DeclaresTooMuch(pr_parser, pr_payload)
             /\ ReturnedField(pr_parser, pr_res.val)
                  = DeclaredField(pr_parser, pr_payload)
        ELSE IF Layout(pr_parser).var = "list"
        THEN /\ Len(pr_res.val.entries) = FieldValue(pr_payload, 4, 2)
             /\ NamesFit(pr_payload, 6, pr_res.val.entries)
        ELSE TRUE

\* a payload of the right version whose data length exceeds the data that
\* follow was rejected by the disk sector parser
C29_Witness ==
    /\ pr_phase = "called"
    /\ pr_parser = "dp.parse_read_sector_resp"
    /\ DeclaresTooMuch(pr_parser, pr_payload)
    /\ pr_payload[1] = 1
    /\ ~pr_res.ok


\* the catalogue entry parsed holds a name, so that the parser lists it
DfsListed == dfs_sector0[8 + dfs_index * 8 + 1] # 32

\* C30: the entry that parse_dfs_catalogue_090 returns for a file packed per
\* the DFS 0.90 rules has exactly the load, exec, length and start sector
\* that were packed, whatever the other three values are
C30_BitPacking ==
    (dfs_phase = "parsed" /\ DfsListed) =>
        /\ dfs_out.ok
        /\ Len(dfs_out.entries) = MaxIndex + 1
        /\ LET e == dfs_out.entries[dfs_index + 1]
           IN  /\ e.load_addr = dfs_vals.load
               /\ e.exec_addr = dfs_vals.exec
               /\ e.length = dfs_vals.length
               /\ e.start_sector = dfs_vals.start

\* the values of the repository's test (load 0x34567, exec 0x21234, length
\* 0x1ABCD, start 0x2AA) were packed and parsed
C30_Witness ==
    /\ dfs_phase = "parsed"
    /\ DfsListed
    /\ dfs_vals = [load |-> 214375, exec |-> 135732, length |-> 109517,
                   start |-> 682]
    /\ Len(dfs_out.entries) = MaxIndex + 1


\* C31: when cmd_dfs_read ends on Ok ReadSector responses only, it has
\* returned and written exactly the length of the catalogue entry
C31_DfsReadWritesLength ==
    (/\ dfs_read.pc \in {"done", "raised"}
     /\ Len(dfs_read.reqs) = dfs_read.lba - dfs_read.ent.start_sector)
        => (dfs_read.pc = "done"
            /\ Len(dfs_read.out) = dfs_read.ent.length)


\* the response is Ok and its payload is a version-1 time payload of 12 bytes
ClockWellFormed ==
    /\ clock_get.resp # None
    /\ clock_get.resp[1].status = STATUS_OK
    /\ Len(clock_get.resp[1].payload) = 12
    /\ clock_get.resp[1].payload[1] = 1

C33_LegacyReturnsBufferedPacket ==
    (legacy.pc = "idle" /\ legacy.ncalls > 0 /\ legacy.starved)
        => legacy.ret # None

\* C34: a finished modem drain returned at most max_total bytes, and they are
\* the stream's bytes from the device-reported cursor up to the final cursor
C34_DrainBounded ==
    (rd_path = "modem_drain" /\ rd_pc = "done")
        => /\ Len(rd_sink) <= MaxTotal
           /\ rd_sink = StreamData(rd_offset - Len(rd_sink), Len(rd_sink))

\* C35: a finished call of the retry helper has sent at most max(1, retries)
\* requests, and when it made an attempt it returned what its last attempt
\* got: None for no packet, the packet otherwise
C35_RetryReturnsLastAttempt ==
    nr_pc = "done"
        => /\ ncalls <= Max(1, MaxRetries)
           /\ ncalls > 0 => nr_ret = ret

\* ------------------------------------------------------------------------
\* The descriptor chain of parse (specification SpecParse)
\* ------------------------------------------------------------------------
\* the lengths k for which bytes 6..5+k of the packet form a chain: all but
\* the last have bit 0x80, the last does not
ChainLens(d) ==
    {k \in 1..(Len(d) - 5) :
        /\ \A i \in 1..(k - 1) : d[5 + i] >= 128
        /\ d[5 + k] < 128}

ParamCounts == <<0, 1, 2, 3, 4, 1, 2, 1>>
ParamSizes == <<0, 1, 1, 1, 1, 2, 2, 4>>

\* the sizes of the params the descriptors d[6..5+k] announce, in order
RECURSIVE AnnouncedSizes(_, _, _)
AnnouncedSizes(d, i, k) ==
    IF i > k THEN <<>>
    ELSE LET t == d[5 + i] % 8
         IN  [j \in 1..ParamCounts[t + 1] |-> ParamSizes[t + 1]]
             \o AnnouncedSizes(d, i + 1, k)

RECURSIVE SumFirst(_, _)
SumFirst(sizes, j) ==
    IF j = 0 THEN 0 ELSE SumFirst(sizes, j - 1) + sizes[j]

\* the little-endian value of the n bytes after offset o, n one of 1, 2, 4
LittleEndian(d, o, n) ==
    IF n = 1 THEN d[o + 1]
    ELSE IF n = 2 THEN d[o + 1] + 256 * d[o + 2]
    ELSE d[o + 1] + 256 * d[o + 2] + 65536 * d[o + 3] + 16777216 * d[o + 4]

\* C36: parse accepts a packet of true length exactly when its descriptor
\* chain and every announced param end within the packet; the params are the
\* announced little-endian values in order and the payload is what follows
\* them; a response with descr = 1 has the one param d[6] and its payload
\* starts at byte 7
C36_DescriptorChain ==
    (qphase = "parsed" /\ Len(decoded) >= HEADER_SIZE
     /\ decoded[3] + 256 * decoded[4] = Len(decoded))
        => IF ChainLens(decoded) = {} THEN parsed = None
           ELSE LET k == CHOOSE n \in ChainLens(decoded) : TRUE
                    sizes == AnnouncedSizes(decoded, 1, k)
                    total == SumFirst(sizes, Len(sizes))
                    first == 5 + k
                IN  IF first + total > Len(decoded) THEN parsed = None
                    ELSE /\ parsed # None
                         /\ parsed[1].params =
                              [j \in 1..Len(sizes) |->
                                  LittleEndian(decoded,
                                               first + SumFirst(sizes, j - 1),
                                               sizes[j])]
                         /\ parsed[1].payload =
                              SubSeq(decoded, first + total + 1, Len(decoded))
                         /\ decoded[6] = 1 =>
                              /\ parsed[1].params = <<decoded[7]>>
                              /\ parsed[1].payload = SubSeq(decoded, 8, Len(decoded))

\* a packet with a chain of two descriptors was parsed: a 2-byte param with
\* different low and high bytes, then a 1-byte param
C36_Witness ==
    /\ qphase = "parsed"
    /\ parsed # None
    /\ decoded[6] = 133
    /\ parsed[1].params = <<1537, 7>>
    /\ parsed[1].payload = <<>>

\* a packet with descr = 7 was parsed: one 4-byte param, then a payload byte
C36_WitnessWide ==
    /\ qphase = "parsed"
    /\ parsed # None
    /\ decoded[6] = 7
    /\ Len(parsed[1].params) = 1

\* ------------------------------------------------------------------------
\* Properties of the length header (specification SpecWrPkt)
\* ------------------------------------------------------------------------
\* C37: every packet built around a Write request has a length field equal
\* to its size, 6 + len(payload), and passes the length test of parse
C37_LengthFieldIsSize ==
    /\ wr_pkt.pc \in {"built", "checked"} =>
          /\ wr_pkt.size = HEADER_SIZE + wr_pkt.payload_len
          /\ wr_pkt.length_bytes[1] + 256 * wr_pkt.length_bytes[2] = wr_pkt.size
    /\ wr_pkt.pc = "checked" => wr_pkt.parsed

\* ------------------------------------------------------------------------
\* Properties of the TCP REPL (specification SpecRepl)
\* ------------------------------------------------------------------------
\* C38: once a Close has been sent for a handle, no later send, sendhex,
\* recv, drain, halfclose, info or close command issues a request on that
\* handle
C38_NoRequestAfterClose ==
    \A i, j \in 1..Len(repl.reqs) :
        (/\ i < j
         /\ repl.reqs[i][1] = "Close"
         /\ repl.reqs[j][3] \in {"send", "sendhex", "recv", "drain",
                                 "halfclose", "info", "close"})
            => repl.reqs[j][2] # repl.reqs[i][2]

\* ------------------------------------------------------------------------
\* Properties of net head (specification SpecNetHead)
\* ------------------------------------------------------------------------
\* C39: net head sends Info and Close only after an Open response with
\* status Ok and the accepted flag set; an Open response that is not
\* accepted ends the command as a failure with no further request
C39_HandleOnlyIfAccepted ==
    /\ (\E i \in 1..Len(net_head.cmds) :
           net_head.cmds[i] \in {CMD_INFO, CMD_READ, CMD_WRITE, CMD_CLOSE})
          => /\ status_ok(net_head.open)
             /\ net_head.open[1].accepted
    /\ (/\ net_head.pc = "exit"
        /\ status_ok(net_head.open)
        /\ ~net_head.open[1].accepted)
          => /\ net_head.exit # Some(0)
             /\ net_head.cmds = <<CMD_OPEN>>

\* ------------------------------------------------------------------------
\* Properties of frame extraction on arbitrary bytes (specification
\* SpecExtract)
\* ------------------------------------------------------------------------
\* a frame starts with END, ends with END and has no END in between
WellFramed(f) ==
    /\ Len(f) >= 2
    /\ f[1] = SLIP_END
    /\ f[Len(f)] = SLIP_END
    /\ \A i \in 2..(Len(f) - 1) : f[i] # SLIP_END

\* C40 as stated: after every extraction step the buffer is empty or starts
\* with END, and every returned frame is well framed
C40_BufferStartsWithEnd ==
    Len(sout) > 0 =>
        /\ sbuf = <<>> \/ sbuf[1] = SLIP_END
        /\ \A i \in 1..Len(sout) : sout[i] # None => WellFramed(sout[i][1])

\* C40 amended: an extraction step that returns no frame leaves the buffer
\* empty or starting with END, holding what followed the first END; a step
\* that returns a frame splits the buffer into junk without an END, the
\* frame, which is well framed, and the bytes left in the buffer, which may
\* start with any byte
C40_ExtractionStep ==
    [][Len(sout') = Len(sout) + 1 =>
          LET f == sout'[Len(sout')]
          IN  IF f = None
              THEN /\ sbuf' = <<>> \/ sbuf'[1] = SLIP_END
                   /\ \E junk \in {SubSeq(sbuf, 1, k) : k \in 0..Len(sbuf)} :
                         /\ sbuf = junk \o sbuf'
                         /\ \A i \in 1..Len(junk) : junk[i] # SLIP_END
                   /\ \A i \in 2..Len(sbuf') : sbuf'[i] # SLIP_END
              ELSE /\ WellFramed(f[1])
                   /\ \E junk \in {SubSeq(sbuf, 1, k) : k \in 0..Len(sbuf)} :
                         /\ sbuf = junk \o f[1] \o sbuf'
                         /\ \A i \in 1..Len(junk) : junk[i] # SLIP_END]_vars

\* junk, a frame and more junk were received: the frame was returned without
\* the junk before it, and the buffer starts with the junk after it
C40_Witness ==
    /\ Len(sout) = 1
    /\ sb1 # <<>>
    /\ sb1[1] # SLIP_END
    /\ sout[1] # None
    /\ sbuf # <<>>
    /\ sbuf[1] # SLIP_END

====
